---- MODULE Spec2Model ----
(***************************************************************************)
(* karen-cli: the multi-viewport layout audit pipeline.                    *)
(*                                                                         *)
(* The module models the issue-ID generator (utils/id.ts), the audit       *)
(* engine (core/audit-engine.ts), and the detectors it runs.               *)
(*                                                                         *)
(* Numbers.  CSS lengths are JavaScript numbers; the model keeps them as   *)
(* integers counted in 1/PX of a pixel, so "15px" is 15 * PX and the       *)
(* distance "1px" is PX.                                                   *)
(***************************************************************************)
EXTENDS Integers, Sequences, FiniteSets, TLC

VARIABLES
  counter,   \* utils/id.ts: the module-level `counter`
  config,    \* the KarenConfig handed to the engine / the analyzers
  runs,      \* the runAudit calls in flight, one record per call
  input,     \* the arguments of the directly called functions
  calls      \* the direct calls made so far, with what each returned

vars == <<counter, config, runs, input, calls>>

-----------------------------------------------------------------------------
(* Bounds *)

PX == 2            \* sub-pixel resolution: units per CSS pixel
MaxIssues == 2     \* longest issue list handed to buildSummary

-----------------------------------------------------------------------------
(* Generic helpers *)

Range(s) == {s[i] : i \in 1..Len(s)}

Abs(x) == IF x < 0 THEN -x ELSE x

SeqsUpTo(S, n) == UNION {[1..k -> S] : k \in 0..n}

RECURSIVE Flatten(_)
Flatten(ss) == IF ss = <<>> THEN <<>> ELSE Head(ss) \o Flatten(Tail(ss))

\* the value a JavaScript number takes after arithmetic on `undefined`
NaN == -1

Returned(v) == [state |-> "returned", value |-> v]
Threw(e) == [state |-> "threw", error |-> e]

\* the record of one completed direct call
Call(fn, outcome) ==
  IF outcome.state = "returned"
    THEN [fn |-> fn, state |-> "returned", value |-> outcome.value]
    ELSE [fn |-> fn, state |-> "threw", error |-> outcome.error]

-----------------------------------------------------------------------------
(* types/config.ts, types/audit.ts *)

AuditFeature ==
  {"overflow", "spacing", "typescale", "colors", "accessibility",
   "design-system", "performance"}

IssueSeverity == {"critical", "high", "medium", "low"}

-----------------------------------------------------------------------------
(* CSS strings.                                                            *)
(* A computed style value is a string; the model keeps it as the sequence  *)
(* of its space-separated tokens.  A token is a number with a unit         *)
(* ("15px", "0", "1.5rem"), a word ("auto", "visible", "red"), or a colour *)
(* function / hex literal.  The empty string is the empty sequence.        *)

Num(v, unit) == [kind |-> "num", v |-> v, unit |-> unit]
Word(w) == [kind |-> "word", text |-> w]
Rgb(r, g, b) == [kind |-> "rgb", r |-> r, g |-> g, b |-> b]
Rgba(r, g, b, a) == [kind |-> "rgba", r |-> r, g |-> g, b |-> b, a |-> a]
Hex(r, g, b) == [kind |-> "hex", r |-> r, g |-> g, b |-> b]

Px(n) == <<Num(n * PX, "px")>>     \* the string "<n>px"
Str(w) == <<Word(w)>>              \* a one-word string
EmptyString == <<>>

\* element.computedStyle.<prop>: undefined when the property is missing
HasStyle(element, prop) == prop \in DOMAIN element.computedStyle

\* JavaScript truthiness of computedStyle.<prop>: neither undefined nor ''
Truthy(element, prop) ==
  HasStyle(element, prop) /\ element.computedStyle[prop] # EmptyString

\* element.computedStyle.<prop> || dflt
StyleOr(element, prop, dflt) ==
  IF Truthy(element, prop) THEN element.computedStyle[prop] ELSE dflt

\* String.prototype.split(' '): '' splits into one empty piece
split(value) == IF value = EmptyString THEN <<Word("")>> ELSE value

\* parseFloat of one piece: a number, or NaN for a piece that does not
\* start with one
parseFloatIsNaN(token) == token.kind # "num"
parseFloatOf(token) == token.v

\* parseFloat of a whole string reads the leading number
parseFloatStrIsNaN(value) == value = EmptyString \/ parseFloatIsNaN(value[1])
parseFloatStr(value) == parseFloatOf(value[1])

-----------------------------------------------------------------------------
(* utils/id.ts and the random phrasing                                     *)

\* generateId(prefix) called with the counter at c: the id it returns.
\* The id string is prefix + '-' + the counter padded to 4 digits; the
\* model keeps the two parts.
generateId(prefix, c) == [prefix |-> prefix, num |-> c + 1]

\* Math.floor(Math.random() * 4) for the k-th message drawn in a call whose
\* random stream is `seed`
RandomVariants == 4
randomIndex(seed, k) == (seed + k) % RandomVariants

\* an emission aborted by a TypeError (Array.prototype.reduce of an empty
\* array with no initial value)
ThrowItem == [throw |-> "TypeError"]
IsThrow(item) == "throw" \in DOMAIN item

\* The emissions of one analyzer call, in order: each issue pushed takes the
\* next id and, where the analyzer picks a roast at random, the next draw.
RECURSIVE stampFrom(_, _, _, _)
stampFrom(raw, c, seed, k) ==
  IF raw = <<>> THEN <<>>
  ELSE LET item == Head(raw)
           issue == [item EXCEPT !.id = generateId(item.id.prefix, c),
                                 !.message =
                                   IF item.message.random
                                     THEN [item.message EXCEPT
                                             !.variant = randomIndex(seed, k)]
                                     ELSE item.message]
       IN <<issue>> \o stampFrom(Tail(raw), c + 1, seed, k + 1)

\* mutant: the emissions are merged in an order that depends on the draw
stampIssues_unordered(raw, c, seed) ==
  LET n == Len(raw)
      rotated == [i \in 1..n |-> raw[((i - 1 + seed) % n) + 1]]
  IN stampFrom(rotated, c, seed, 0)

stampIssues(raw, c, seed) == stampFrom(raw, c, seed, 0)

\* position of the first emission that throws, 0 if none
FirstThrow(raw) ==
  IF \E i \in 1..Len(raw) : IsThrow(raw[i])
    THEN CHOOSE i \in 1..Len(raw) :
           IsThrow(raw[i]) /\ \A j \in 1..(i - 1) : ~IsThrow(raw[j])
    ELSE 0

\* what a call of an analyzer does, given its emissions: the issues it
\* returns (or the error it throws) and where it leaves the counter
callOutcome(raw, c, seed) ==
  LET t == FirstThrow(raw)
  IN IF t = 0
       THEN [ret |-> Returned(stampIssues(raw, c, seed)), counter |-> c + Len(raw)]
       ELSE [ret |-> Threw("TypeError"), counter |-> c + (t - 1)]

RandomMessage == [random |-> TRUE, variant |-> 0]
FixedMessage(text) == [random |-> FALSE, variant |-> 0, text |-> text]
PendingId(prefix) == [prefix |-> prefix, num |-> 0]

-----------------------------------------------------------------------------
(* detectors/spacing.ts *)

\* spacingValue.split(' ').map(parseFloat).filter(v => !isNaN(v))
parseSpacing(spacingValue) ==
  LET pieces == split(spacingValue)
      numeric == SelectSeq(pieces, LAMBDA t : ~parseFloatIsNaN(t))
  IN [i \in 1..Len(numeric) |-> parseFloatOf(numeric[i])]

\* scale.some(s => Math.abs(value - s) < 1)
isOnScale(value, scale) ==
  \E i \in 1..Len(scale) : Abs(value - scale[i]) < PX

\* scale.reduce((prev, curr) =>
\*   Math.abs(curr - value) < Math.abs(prev - value) ? curr : prev)
\* for a non-empty scale; the empty scale makes reduce throw (see ThrowItem)
RECURSIVE nearestFold(_, _, _, _)
nearestFold(value, scale, i, prev) ==
  IF i > Len(scale) THEN prev
  ELSE nearestFold(value, scale, i + 1,
         IF Abs(scale[i] - value) < Abs(prev - value) THEN scale[i] ELSE prev)

\* findNearest that leaves the first entry of the scale out
findNearest_withoutFirst(value, scale) ==
  nearestFold(value, scale, 3, scale[IF Len(scale) > 1 THEN 2 ELSE 1])

findNearest(value, scale) == nearestFold(value, scale, 2, scale[1])

spacingIssue(snapshot, element, type, value, spacingScale) ==
  IF spacingScale = <<>> THEN ThrowItem
  ELSE LET nearest == findNearest(value, spacingScale)
       IN [id |-> PendingId("SPC"),
           type |-> "spacing",
           severity |-> "medium",
           viewport |-> snapshot.viewport.name,
           element |-> element.selector,
           message |-> RandomMessage,
           details |-> [property |-> type,
                        value |-> value,
                        nearestScaleValue |-> nearest,
                        spacingScale |-> spacingScale,
                        difference |-> Abs(value - nearest)],
           fix |-> [before |-> [property |-> type, value |-> value],
                    after |-> [property |-> type, value |-> nearest]]]

\* the { type, value } entries of one element: margins first, then paddings
allSpacingValues(element) ==
  LET margins == parseSpacing(StyleOr(element, "margin", <<Num(0, "")>>))
      paddings == parseSpacing(StyleOr(element, "padding", <<Num(0, "")>>))
  IN [i \in 1..Len(margins) |-> [type |-> "margin", value |-> margins[i]]]
     \o [i \in 1..Len(paddings) |-> [type |-> "padding", value |-> paddings[i]]]

spacingOfElement(snapshot, element, spacingScale) ==
  LET entries == allSpacingValues(element)
      flagged == SelectSeq(entries,
                   LAMBDA e : ~isOnScale(e.value, spacingScale) /\ e.value > 0)
  IN [i \in 1..Len(flagged) |->
        spacingIssue(snapshot, element, flagged[i].type, flagged[i].value,
                     spacingScale)]

\* the emissions of analyzeSpacing: for each snapshot, for each element of
\* snapshot.dom
analyzeSpacing(snapshots, cfg) ==
  Flatten([s \in 1..Len(snapshots) |->
    Flatten([e \in 1..Len(snapshots[s].dom) |->
      spacingOfElement(snapshots[s], snapshots[s].dom[e], cfg.spacingScale)])])

-----------------------------------------------------------------------------
(* detectors/typescale.ts *)

textTags == {"P", "H1", "H2", "H3", "H4", "H5", "H6", "SPAN", "DIV", "A", "LI"}

typescaleIssue(snapshot, element, fontSize, typescale) ==
  IF typescale = <<>> THEN ThrowItem
  ELSE LET nearest == findNearest(fontSize, typescale)
       IN [id |-> PendingId("TYP"),
           type |-> "typescale",
           severity |-> "medium",
           viewport |-> snapshot.viewport.name,
           element |-> element.selector,
           message |-> RandomMessage,
           details |-> [fontSize |-> fontSize,
                        nearestScaleValue |-> nearest,
                        typescale |-> typescale,
                        difference |-> Abs(fontSize - nearest)],
           fix |-> [before |-> [property |-> "font-size", value |-> fontSize],
                    after |-> [property |-> "font-size", value |-> nearest]]]

typescaleOfElement(snapshot, element, typescale) ==
  LET fontSizeStr == StyleOr(element, "fontSize", Px(16))
  IN IF /\ ~parseFloatStrIsNaN(fontSizeStr)
        /\ parseFloatStr(fontSizeStr) \notin Range(typescale)
        /\ parseFloatStr(fontSizeStr) > 0
       THEN <<typescaleIssue(snapshot, element, parseFloatStr(fontSizeStr),
                             typescale)>>
       ELSE <<>>

enforceTypescale(snapshots, cfg) ==
  Flatten([s \in 1..Len(snapshots) |->
    LET textElements ==
          SelectSeq(snapshots[s].dom, LAMBDA el : el.tagName \in textTags)
    IN Flatten([e \in 1..Len(textElements) |->
         typescaleOfElement(snapshots[s], textElements[e],
                            cfg.typescale.sizes)])])

-----------------------------------------------------------------------------
(* detectors/overflow.ts *)

overflowIssue(snapshot, element, overflowX) ==
  [id |-> PendingId("OVF"),
   type |-> "overflow",
   severity |-> "high",
   viewport |-> snapshot.viewport.name,
   element |-> element.selector,
   message |-> RandomMessage,
   details |-> [overflow |-> "horizontal",
                elementWidth |-> element.rect.width,
                overflowType |-> overflowX,
                viewport |-> <<snapshot.viewport.width, snapshot.viewport.height>>],
   screenshot |-> snapshot.screenshot]

overflowOfElement(snapshot, element) ==
  LET overflow == StyleOr(element, "overflow", Str("visible"))
      overflowX == StyleOr(element, "overflowX", overflow)
  IN IF /\ overflowX = Str("visible")
        /\ snapshot.metrics.overflowingElements > 0
        /\ element.rect.width > 0
       THEN <<overflowIssue(snapshot, element, overflowX)>>
       ELSE <<>>

detectOverflow(snapshots, cfg) ==
  Flatten([s \in 1..Len(snapshots) |->
    Flatten([e \in 1..Len(snapshots[s].dom) |->
      overflowOfElement(snapshots[s], snapshots[s].dom[e])])])

-----------------------------------------------------------------------------
(* detectors/accessibility.ts *)

NoColor == [kind |-> "null"]

\* parseColor: an rgb(r, g, b) string or a 6-digit hex string gives the RGB
\* triple; anything else (rgba(...), a colour name, 3-digit hex) gives null
parseColor(colorStr) ==
  IF Len(colorStr) = 1 /\ colorStr[1].kind \in {"rgb", "hex"}
    THEN [kind |-> "RGB", r |-> colorStr[1].r, g |-> colorStr[1].g,
          b |-> colorStr[1].b]
    ELSE NoColor

\* the sRGB channel linearisation
\*   v <= 0.03928 ? v / 12.92 : Math.pow((v + 0.055) / 1.055, 2.4), v = val / 255
\* in units of 1/10000, tabulated for the channel values of the model
channelLinear(val) ==
  CASE val = 0 -> 0
    [] val = 90 -> 1022
    [] val = 118 -> 1812
    [] val = 119 -> 1845
    [] val = 170 -> 4020
    [] val = 255 -> 10000

\* 0.2126 * r + 0.7152 * g + 0.0722 * b, in units of 1/1000000
getLuminance(rgb) ==
  (2126 * channelLinear(rgb.r) + 7152 * channelLinear(rgb.g)
     + 722 * channelLinear(rgb.b)) \div 100

Max(a, b) == IF a >= b THEN a ELSE b
Min(a, b) == IF a <= b THEN a ELSE b

\* calculateContrast returns (lighter + 0.05) / (darker + 0.05); the model
\* keeps the quotient as the pair of its numerator and denominator
calculateContrast(fg, bg) ==
  LET l1 == getLuminance(fg)
      l2 == getLuminance(bg)
  IN [num |-> Max(l1, l2) + 50000, den |-> Min(l1, l2) + 50000]

\* contrastRatio < requiredRatio, the required ratio being in tenths
contrastBelow(contrast, requiredRatio) ==
  contrast.num * 10 < requiredRatio * contrast.den

\* parseFloat(contrastRatio.toFixed(2)), in hundredths
contrastToFixed2(contrast) ==
  (200 * contrast.num + contrast.den) \div (2 * contrast.den)

generateAccessibleColor(bg) ==
  IF getLuminance(bg) > 500000 THEN Hex(0, 0, 0) ELSE Hex(255, 255, 255)

\* computedStyle.<prop> as it is copied into details: the string or undefined
RawStyle(element, prop) ==
  IF HasStyle(element, prop) THEN element.computedStyle[prop] ELSE <<Word("undefined")>>

\* mutant: the AA ratio below 18px and the AAA ratio from 18px on
requiredRatioOf_swapped(fontSize, cfg) ==
  IF fontSize < 18 * PX THEN cfg.contrastRatios.AA ELSE cfg.contrastRatios.AAA

\* fontSize < 18 ? config.contrastRatios.AAA : config.contrastRatios.AA
requiredRatioOf(fontSize, cfg) ==
  IF fontSize < 18 * PX THEN cfg.contrastRatios.AAA ELSE cfg.contrastRatios.AA

accessibilityIssue(snapshot, element, contrast, requiredRatio, bgColor) ==
  [id |-> PendingId("A11Y"),
   type |-> "accessibility",
   severity |-> "high",
   viewport |-> snapshot.viewport.name,
   element |-> element.selector,
   message |-> RandomMessage,
   details |-> [foreground |-> RawStyle(element, "color"),
                background |-> RawStyle(element, "backgroundColor"),
                contrastRatio |-> contrastToFixed2(contrast),
                required |-> requiredRatio,
                passes |-> FALSE,
                wcagLevel |-> IF requiredRatio >= 70 THEN "AAA" ELSE "AA"],
   screenshot |-> snapshot.screenshot,
   fix |-> [before |-> [property |-> "color", value |-> RawStyle(element, "color")],
            after |-> [property |-> "color",
                       value |-> <<generateAccessibleColor(bgColor)>>]]]

\* el.computedStyle.fontSize && parseFloat(el.computedStyle.fontSize) > 0
isTextElement(el) ==
  /\ Truthy(el, "fontSize")
  /\ ~parseFloatStrIsNaN(el.computedStyle["fontSize"])
  /\ parseFloatStr(el.computedStyle["fontSize"]) > 0

accessibilityOfElement(snapshot, element, cfg) ==
  LET fgColor == parseColor(StyleOr(element, "color", <<Hex(0, 0, 0)>>))
      bgColor == parseColor(StyleOr(element, "backgroundColor",
                                    <<Hex(255, 255, 255)>>))
  IN IF fgColor = NoColor \/ bgColor = NoColor THEN <<>>
     ELSE LET contrastRatio == calculateContrast(fgColor, bgColor)
              fontSize == parseFloatStr(StyleOr(element, "fontSize",
                                                <<Num(16 * PX, "")>>))
              requiredRatio == requiredRatioOf(fontSize, cfg)
          IN IF contrastBelow(contrastRatio, requiredRatio)
               THEN <<accessibilityIssue(snapshot, element, contrastRatio,
                                         requiredRatio, bgColor)>>
               ELSE <<>>

checkAccessibility(snapshots, cfg) ==
  Flatten([s \in 1..Len(snapshots) |->
    LET textElements == SelectSeq(snapshots[s].dom, isTextElement)
    IN Flatten([e \in 1..Len(textElements) |->
         accessibilityOfElement(snapshots[s], textElements[e], cfg)])])

-----------------------------------------------------------------------------
(* detectors/colors.ts *)

\* Array.from(new Set(seq)): the distinct entries in order of first occurrence
RECURSIVE Unique(_)
Unique(seq) ==
  IF seq = <<>> THEN <<>>
  ELSE LET rest == Unique(SubSeq(seq, 1, Len(seq) - 1))
           last == seq[Len(seq)]
       IN IF last \in Range(rest) THEN rest ELSE Append(rest, last)

\* every element of every snapshot.dom that passes the filter, in order
Filtered(snapshots, keep(_)) ==
  Flatten([s \in 1..Len(snapshots) |-> SelectSeq(snapshots[s].dom, keep)])

Transparent == Str("transparent")
ClearRgba == <<Rgba(0, 0, 0, 0)>>

namedColors ==
  [black |-> Hex(0, 0, 0), white |-> Hex(255, 255, 255), red |-> Hex(255, 0, 0),
   green |-> Hex(0, 128, 0), blue |-> Hex(0, 0, 255), yellow |-> Hex(255, 255, 0),
   cyan |-> Hex(0, 255, 255), magenta |-> Hex(255, 0, 255),
   gray |-> Hex(128, 128, 128), grey |-> Hex(128, 128, 128)]

\* rgbToHex / toUpperCase: the '#RRGGBB' string of a colour token
rgbToHex(r, g, b) == Hex(r, g, b)

\* normalizeColor of a one-token colour string: the '#RRGGBB' string, or null
\* for '', 'transparent', a fully transparent rgba() and, when no table of
\* names is consulted, for every word
normalizeColorWith(color, names) ==
  IF color = EmptyString \/ color = Transparent THEN NoColor
  ELSE LET token == color[1]
       IN CASE token.kind = "hex" -> rgbToHex(token.r, token.g, token.b)
            [] token.kind = "rgb" -> rgbToHex(token.r, token.g, token.b)
            [] token.kind = "rgba" ->
                 IF token.a = 0 THEN NoColor
                 ELSE rgbToHex(token.r, token.g, token.b)
            [] token.kind = "word" /\ token.text \in DOMAIN names ->
                 names[token.text]
            [] OTHER -> NoColor

normalizeColor(color) == normalizeColorWith(color, namedColors)

\* hexToRgb: a '#RRGGBB' string gives its channels, anything else black
hexToRgb(hex) ==
  IF hex.kind = "hex" THEN [r |-> hex.r, g |-> hex.g, b |-> hex.b]
  ELSE [r |-> 0, g |-> 0, b |-> 0]

\* colorDistance is sqrt(wR*r*r + 4*g*g + wB*b*b) with wR = 2 + rMean/256 and
\* wB = 2 + (255 - rMean)/256; the model keeps 512 times its square, which is
\* the integer (1024 + r1 + r2)*r*r + 2048*g*g + (1534 - r1 - r2)*b*b
colorDistance(color1, color2) ==
  LET rgb1 == hexToRgb(color1)
      rgb2 == hexToRgb(color2)
      rSum == rgb1.r + rgb2.r
      r == rgb1.r - rgb2.r
      g == rgb1.g - rgb2.g
      b == rgb1.b - rgb2.b
  IN (1024 + rSum) * r * r + 2048 * g * g + (1534 - rSum) * b * b

\* the value colorDistance takes for the distance d
Distance(d) == 512 * d * d

RECURSIVE nearestColorFold(_, _, _, _)
nearestColorFold(color, palette, i, nearest) ==
  IF i > Len(palette) THEN nearest
  ELSE nearestColorFold(color, palette, i + 1,
         IF colorDistance(color, palette[i]) < colorDistance(color, nearest)
           THEN palette[i] ELSE nearest)

\* findNearestColor: the first palette colour at minimal distance;
\* palette[0], undefined, for the empty palette
findNearestColor(color, palette) ==
  IF palette = <<>> THEN Word("undefined")
  ELSE nearestColorFold(color, palette, 2, palette[1])

colorProperties ==
  <<"color", "backgroundColor", "borderColor", "borderTopColor",
    "borderRightColor", "borderBottomColor", "borderLeftColor">>

\* the normalised colours of one element, in property order
colorsOfElement(element) ==
  LET present == SelectSeq(colorProperties, LAMBDA p :
                   /\ Truthy(element, p)
                   /\ element.computedStyle[p] # Transparent
                   /\ element.computedStyle[p] # ClearRgba)
      normalized == [i \in 1..Len(present) |->
                       normalizeColor(element.computedStyle[present[i]])]
  IN [i \in 1..Len(normalized) |->
        [color |-> normalized[i], selector |-> element.selector]]

\* usedColors after one more occurrence
addUsage(used, occurrence) ==
  IF occurrence.color = NoColor THEN used
  ELSE IF \E k \in 1..Len(used) : used[k].color = occurrence.color
    THEN [k \in 1..Len(used) |->
           IF used[k].color = occurrence.color
             THEN [used[k] EXCEPT
                     !.count = @ + 1,
                     !.elements = IF occurrence.selector \in Range(@) THEN @
                                  ELSE Append(@, occurrence.selector)]
             ELSE used[k]]
    ELSE Append(used, [color |-> occurrence.color, count |-> 1,
                       elements |-> <<occurrence.selector>>])

RECURSIVE usageFold(_, _, _)
usageFold(occurrences, i, used) ==
  IF i > Len(occurrences) THEN used
  ELSE usageFold(occurrences, i + 1, addUsage(used, occurrences[i]))

\* the usedColors map, as its entries in insertion order
usedColorsOf(snapshots) ==
  usageFold(Flatten([s \in 1..Len(snapshots) |->
              Flatten([e \in 1..Len(snapshots[s].dom) |->
                colorsOfElement(snapshots[s].dom[e])])]), 1, <<>>)

\* mutant: colours count as near-duplicates below the distance 10
isNearDuplicate_below10(distance) ==
  distance > 0 /\ distance < Distance(10)

\* distance > 0 && distance < 15
isNearDuplicate(distance) ==
  distance > 0 /\ distance < Distance(15)

nearDuplicateIssue(entry1, entry2) ==
  [id |-> PendingId("CLR"),
   type |-> "colors",
   severity |-> "medium",
   viewport |-> "all",
   element |-> "Multiple elements",
   message |-> FixedMessage("near-duplicate"),
   details |-> [color1 |-> entry1.color,
                color2 |-> entry2.color,
                distance |-> colorDistance(entry1.color, entry2.color),
                occurrences1 |-> entry1.count,
                occurrences2 |-> entry2.count,
                affectedElements |->
                  LET all == Unique(entry1.elements \o entry2.elements)
                  IN SubSeq(all, 1, Min(5, Len(all)))],
   fix |-> [before |-> [property |-> "color", value |-> entry2.color],
            after |-> [property |-> "color", value |-> entry1.color]]]

offPaletteIssue(entry, palette) ==
  LET nearestPaletteColor == findNearestColor(entry.color, palette)
  IN [id |-> PendingId("CLR"),
      type |-> "colors",
      severity |-> "low",
      viewport |-> "all",
      element |-> entry.elements[1],
      message |-> FixedMessage("off-palette"),
      details |-> [color |-> entry.color,
                   nearestPaletteColor |-> nearestPaletteColor,
                   distanceToPalette |->
                     colorDistance(entry.color, nearestPaletteColor),
                   occurrences |-> entry.count,
                   palette |-> palette],
      fix |-> [before |-> [property |-> "color", value |-> entry.color],
               after |-> [property |-> "color", value |-> nearestPaletteColor]]]

\* the emissions of analyzeColors: the near-duplicate pairs (i < j) in index
\* order, then the off-palette colours in insertion order.  The keys of the
\* map are distinct, so no pair key is met twice.
analyzeColors(snapshots, cfg) ==
  LET used == usedColorsOf(snapshots)
      n == Len(used)
      pairs == Flatten([i \in 1..n |->
                 Flatten([j \in 1..n |->
                   IF /\ j > i
                      /\ isNearDuplicate(colorDistance(used[i].color,
                                                       used[j].color))
                     THEN <<nearDuplicateIssue(used[i], used[j])>>
                     ELSE <<>>])])
      offPalette == Flatten([i \in 1..n |->
                      IF /\ used[i].count >= 3
                         /\ colorDistance(used[i].color,
                              findNearestColor(used[i].color, cfg.colorPalette))
                            > Distance(20)
                        THEN <<offPaletteIssue(used[i], cfg.colorPalette)>>
                        ELSE <<>>])
  IN pairs \o offPalette

-----------------------------------------------------------------------------
(* detectors/design-system.ts *)

\* A class name is kept as the sequence of its hyphen-separated words
\* ('btn-primary' is <<"btn", "primary">>); c.includes(sub) is asked for
\* whole words.
includes(c, sub) == sub \in Range(c)

\* el.classes.some(c => subs.some(sub => c.includes(sub)))
someClassIncludes(el, subs) ==
  \E k \in 1..Len(el.classes) : \E sub \in subs : includes(el.classes[k], sub)

\* padding.split(/\s+/) and the 4-value shorthand with equal opposite sides
normalizedPadding(padding) ==
  IF Len(padding) = 4 /\ padding[1] = padding[3] /\ padding[2] = padding[4]
    THEN <<padding[1], padding[2]>>
    ELSE padding

isButton(el) ==
  \/ el.tagName = "BUTTON"
  \/ /\ el.tagName = "A"
     /\ \/ someClassIncludes(el, {"btn", "button"})
        \/ RawStyle(el, "display") = Str("inline-block")
        \/ RawStyle(el, "display") = Str("inline-flex")
  \/ someClassIncludes(el, {"btn", "button"})

ButtonStyle(btn) ==
  [borderRadius |-> StyleOr(btn, "borderRadius", Px(0)),
   padding |-> StyleOr(btn, "padding", Px(0)),
   fontSize |-> StyleOr(btn, "fontSize", Px(16)),
   fontWeight |-> StyleOr(btn, "fontWeight", <<Num(400 * PX, "")>>),
   backgroundColor |-> StyleOr(btn, "backgroundColor", Transparent),
   color |-> StyleOr(btn, "color", <<Hex(0, 0, 0)>>),
   border |-> StyleOr(btn, "border", Str("none")),
   element |-> btn.selector]

createStyleSignature(style) ==
  [borderRadius |-> style.borderRadius,
   padding |-> normalizedPadding(style.padding),
   fontSize |-> style.fontSize,
   fontWeight |-> style.fontWeight,
   backgroundColor |-> style.backgroundColor,
   border |-> style.border]

\* one { count, example } entry per signature, in insertion order
variationsOf(buttons) ==
  LET signatures == Unique([i \in 1..Len(buttons) |->
                              createStyleSignature(buttons[i])])
  IN [k \in 1..Len(signatures) |->
        LET btns == SelectSeq(buttons, LAMBDA b :
                      createStyleSignature(b) = signatures[k])
        IN [count |-> Len(btns), example |-> btns[1]]]

\* Array.prototype.sort((a, b) => b.count - a.count): stable, by falling count
RECURSIVE sortByCount(_)
sortByCount(list) ==
  IF list = <<>> THEN <<>>
  ELSE LET k == CHOOSE k \in 1..Len(list) :
                  /\ \A j \in 1..Len(list) : list[j].count <= list[k].count
                  /\ \A j \in 1..(k - 1) : list[j].count < list[k].count
       IN <<list[k]>>
          \o sortByCount(SubSeq(list, 1, k - 1) \o SubSeq(list, k + 1, Len(list)))

designSystemIssue(severity, element, message, details) ==
  [id |-> PendingId("DS"),
   type |-> "design-system",
   severity |-> severity,
   viewport |-> "all",
   element |-> element,
   message |-> FixedMessage(message),
   details |-> details]

\* analyzeButtonVariations with uniqueStyles >= 5 in place of uniqueStyles > 5
analyzeButtonVariations_from5(snapshots) ==
  LET found == Filtered(snapshots, isButton)
      buttons == [i \in 1..Len(found) |-> ButtonStyle(found[i])]
      variations == variationsOf(buttons)
      uniqueStyles == Len(variations)
      sorted == sortByCount(variations)
      borderRadii == Unique([i \in 1..Len(buttons) |-> buttons[i].borderRadius])
      paddings == Unique([i \in 1..Len(buttons) |->
                            normalizedPadding(buttons[i].padding)])
  IN IF buttons = <<>> THEN <<>>
     ELSE (IF uniqueStyles >= 5
             THEN <<designSystemIssue("high", "Button components", "buttons",
                      [totalButtons |-> Len(buttons),
                       uniqueStyles |-> uniqueStyles,
                       variations |->
                         [k \in 1..Min(10, Len(sorted)) |->
                            [count |-> sorted[k].count,
                             borderRadius |-> sorted[k].example.borderRadius,
                             padding |-> sorted[k].example.padding,
                             fontSize |-> sorted[k].example.fontSize,
                             backgroundColor |->
                               sorted[k].example.backgroundColor]]])>>
             ELSE <<>>)
          \o (IF Len(borderRadii) > 3 /\ Len(buttons) > 5
                THEN <<designSystemIssue("medium", "Button border-radius",
                         "button-radius",
                         [uniqueBorderRadii |-> borderRadii,
                          count |-> Len(borderRadii)])>>
                ELSE <<>>)
          \o (IF Len(paddings) > 4 /\ Len(buttons) > 5
                THEN <<designSystemIssue("medium", "Button padding",
                         "button-padding",
                         [uniquePaddings |-> paddings,
                          count |-> Len(paddings)])>>
                ELSE <<>>)

analyzeButtonVariations(snapshots) ==
  LET found == Filtered(snapshots, isButton)
      buttons == [i \in 1..Len(found) |-> ButtonStyle(found[i])]
      variations == variationsOf(buttons)
      uniqueStyles == Len(variations)
      sorted == sortByCount(variations)
      borderRadii == Unique([i \in 1..Len(buttons) |-> buttons[i].borderRadius])
      paddings == Unique([i \in 1..Len(buttons) |->
                            normalizedPadding(buttons[i].padding)])
  IN IF buttons = <<>> THEN <<>>
     ELSE (IF uniqueStyles > 5
             THEN <<designSystemIssue("high", "Button components", "buttons",
                      [totalButtons |-> Len(buttons),
                       uniqueStyles |-> uniqueStyles,
                       variations |->
                         [k \in 1..Min(10, Len(sorted)) |->
                            [count |-> sorted[k].count,
                             borderRadius |-> sorted[k].example.borderRadius,
                             padding |-> sorted[k].example.padding,
                             fontSize |-> sorted[k].example.fontSize,
                             backgroundColor |->
                               sorted[k].example.backgroundColor]]])>>
             ELSE <<>>)
          \o (IF Len(borderRadii) > 3 /\ Len(buttons) > 5
                THEN <<designSystemIssue("medium", "Button border-radius",
                         "button-radius",
                         [uniqueBorderRadii |-> borderRadii,
                          count |-> Len(borderRadii)])>>
                ELSE <<>>)
          \o (IF Len(paddings) > 4 /\ Len(buttons) > 5
                THEN <<designSystemIssue("medium", "Button padding",
                         "button-padding",
                         [uniquePaddings |-> paddings,
                          count |-> Len(paddings)])>>
                ELSE <<>>)

isInput(el) ==
  \/ el.tagName \in {"INPUT", "TEXTAREA", "SELECT"}
  \/ someClassIncludes(el, {"input", "field"})

InputStyle(el) ==
  [borderRadius |-> StyleOr(el, "borderRadius", Px(0)),
   padding |-> StyleOr(el, "padding", Px(0)),
   fontSize |-> StyleOr(el, "fontSize", Px(16)),
   border |-> StyleOr(el, "border", Str("none")),
   height |-> StyleOr(el, "height", Str("auto")),
   element |-> el.selector]

analyzeInputVariations(snapshots) ==
  LET found == Filtered(snapshots, isInput)
      inputs == [i \in 1..Len(found) |-> InputStyle(found[i])]
      heights == Unique([i \in 1..Len(inputs) |-> inputs[i].height])
      borders == Unique([i \in 1..Len(inputs) |-> inputs[i].border])
  IN IF inputs = <<>> THEN <<>>
     ELSE (IF Len(heights) > 3 /\ Len(inputs) > 3
             THEN <<designSystemIssue("medium", "Input fields", "input-heights",
                      [totalInputs |-> Len(inputs),
                       uniqueHeights |-> heights])>>
             ELSE <<>>)
          \o (IF Len(borders) > 3 /\ Len(inputs) > 3
                THEN <<designSystemIssue("medium", "Input borders",
                         "input-borders",
                         [totalInputs |-> Len(inputs),
                          uniqueBorders |->
                            SubSeq(borders, 1, Min(5, Len(borders)))])>>
                ELSE <<>>)

isCard(el) ==
  \/ someClassIncludes(el, {"card", "panel", "box"})
  \/ el.tagName \in {"ARTICLE", "SECTION"}

CardStyle(card) ==
  [borderRadius |-> StyleOr(card, "borderRadius", Px(0)),
   padding |-> StyleOr(card, "padding", Px(0)),
   backgroundColor |-> StyleOr(card, "backgroundColor", Transparent),
   boxShadow |-> StyleOr(card, "boxShadow", Str("none")),
   border |-> StyleOr(card, "border", Str("none")),
   element |-> card.selector]

analyzeCardVariations(snapshots) ==
  LET found == Filtered(snapshots, isCard)
      cards == [i \in 1..Len(found) |-> CardStyle(found[i])]
      shadows == Unique([i \in 1..Len(cards) |-> cards[i].boxShadow])
      cardPaddings == Unique([i \in 1..Len(cards) |->
                                normalizedPadding(cards[i].padding)])
  IN IF cards = <<>> THEN <<>>
     ELSE (IF Len(shadows) > 4 /\ Len(cards) > 3
             THEN <<designSystemIssue("medium", "Card shadows", "card-shadows",
                      [totalCards |-> Len(cards),
                       uniqueShadows |-> Len(shadows)])>>
             ELSE <<>>)
          \o (IF Len(cardPaddings) > 4 /\ Len(cards) > 3
                THEN <<designSystemIssue("low", "Card padding", "card-padding",
                         [totalCards |-> Len(cards),
                          uniquePaddings |-> cardPaddings])>>
                ELSE <<>>)

headingTags == {"H1", "H2", "H3", "H4", "H5", "H6"}

analyzeHeadingInconsistencies(snapshots) ==
  LET found == Filtered(snapshots, LAMBDA el : el.tagName \in headingTags)
      tags == Unique([i \in 1..Len(found) |-> found[i].tagName])
      fontSizesOf(tag) ==
        LET ofTag == SelectSeq(found, LAMBDA el : el.tagName = tag)
        IN Unique([i \in 1..Len(ofTag) |-> StyleOr(ofTag[i], "fontSize", Px(16))])
  IN Flatten([k \in 1..Len(tags) |->
       IF Len(fontSizesOf(tags[k])) > 2
         THEN <<designSystemIssue("medium", tags[k], "heading-sizes",
                  [tag |-> tags[k], fontSizes |-> fontSizesOf(tags[k])])>>
         ELSE <<>>])

\* the emissions of detectDesignSystemChaos
detectDesignSystemChaos(snapshots, cfg) ==
  analyzeButtonVariations(snapshots)
    \o analyzeInputVariations(snapshots)
    \o analyzeCardVariations(snapshots)
    \o analyzeHeadingInconsistencies(snapshots)

-----------------------------------------------------------------------------
(* detectors/alignment.ts *)

\* Math.round of a length, in whole pixels
Round(v) == (2 * v + PX) \div (2 * PX)

\* [...elements].sort((a, b) => a.rect[axis] - b.rect[axis]): stable, rising
RECURSIVE sortByPosition(_, _)
sortByPosition(elements, axis) ==
  IF elements = <<>> THEN <<>>
  ELSE LET k == CHOOSE k \in 1..Len(elements) :
                  /\ \A j \in 1..Len(elements) :
                       elements[k].rect[axis] <= elements[j].rect[axis]
                  /\ \A j \in 1..(k - 1) :
                       elements[k].rect[axis] < elements[j].rect[axis]
       IN <<elements[k]>>
          \o sortByPosition(SubSeq(elements, 1, k - 1)
                              \o SubSeq(elements, k + 1, Len(elements)), axis)

\* the loop of groupElementsByRow / groupElementsByColumn over the sorted
\* elements; `current` is empty while the current position is -Infinity
RECURSIVE groupLoop(_, _, _, _, _, _, _)
groupLoop(sorted, i, axis, tolerance, groups, current, currentPos) ==
  IF i > Len(sorted)
    THEN IF Len(current) > 1 THEN Append(groups, current) ELSE groups
  ELSE LET el == sorted[i]
       IN IF el.rect.width = 0 \/ el.rect.height = 0
            THEN groupLoop(sorted, i + 1, axis, tolerance, groups, current,
                           currentPos)
          ELSE IF current # <<>> /\ Abs(el.rect[axis] - currentPos) <= tolerance
            THEN groupLoop(sorted, i + 1, axis, tolerance, groups,
                           Append(current, el), currentPos)
          ELSE groupLoop(sorted, i + 1, axis, tolerance,
                         IF Len(current) > 1 THEN Append(groups, current)
                         ELSE groups,
                         <<el>>, el.rect[axis])

groupElementsByRow(elements, tolerance) ==
  groupLoop(sortByPosition(elements, "y"), 1, "y", tolerance, <<>>, <<>>, 0)

groupElementsByColumn(elements, tolerance) ==
  groupLoop(sortByPosition(elements, "x"), 1, "x", tolerance, <<>>, <<>>, 0)

\* the position counted most often; of several counted equally often, the
\* one first seen last (reduce keeps a only when a[1] > b[1])
baselineOf(positions) ==
  LET distinct == Unique(positions)
      count(p) == Cardinality({i \in 1..Len(positions) : positions[i] = p})
      k == CHOOSE k \in 1..Len(distinct) :
             /\ \A j \in 1..Len(distinct) : count(distinct[j]) <= count(distinct[k])
             /\ \A j \in (k + 1)..Len(distinct) :
                  count(distinct[j]) < count(distinct[k])
  IN distinct[k]

SeqMax(s) == CHOOSE m \in Range(s) : \A x \in Range(s) : x <= m
SeqMin(s) == CHOOSE m \in Range(s) : \A x \in Range(s) : m <= x

alignmentIssue(snapshot, element, message, details) ==
  [id |-> PendingId("ALN"),
   type |-> "design-system",
   severity |-> "medium",
   viewport |-> snapshot.viewport.name,
   element |-> element,
   message |-> FixedMessage(message),
   details |-> details]

\* lineIssue with misalignment >= tolerance in place of misalignment > tolerance
lineIssue_fromTolerance(snapshot, line, axis, tolerance) ==
  LET positions == [i \in 1..Len(line) |-> line[i].rect[axis]]
      misalignment == SeqMax(positions) - SeqMin(positions)
      baseline == baselineOf(positions)
      misaligned == SelectSeq(line, LAMBDA el :
                      Abs(el.rect[axis] - baseline) > tolerance)
  IN IF Len(line) >= 2 /\ misalignment >= tolerance
       THEN <<alignmentIssue(snapshot,
                [i \in 1..Len(misaligned) |-> misaligned[i].selector],
                IF axis = "y" THEN "horizontal" ELSE "vertical",
                [alignmentType |-> IF axis = "y" THEN "horizontal" ELSE "vertical",
                 misalignment |-> Round(misalignment),
                 tolerance |-> tolerance,
                 baseline |-> baseline,
                 elements |-> [i \in 1..Len(line) |->
                                 [selector |-> line[i].selector,
                                  position |-> line[i].rect[axis],
                                  diff |-> Abs(line[i].rect[axis] - baseline)]]])>>
       ELSE <<>>

\* one row (axis "y") or one column (axis "x") of at least two elements
lineIssue(snapshot, line, axis, tolerance) ==
  LET positions == [i \in 1..Len(line) |-> line[i].rect[axis]]
      misalignment == SeqMax(positions) - SeqMin(positions)
      baseline == baselineOf(positions)
      misaligned == SelectSeq(line, LAMBDA el :
                      Abs(el.rect[axis] - baseline) > tolerance)
  IN IF Len(line) >= 2 /\ misalignment > tolerance
       THEN <<alignmentIssue(snapshot,
                [i \in 1..Len(misaligned) |-> misaligned[i].selector],
                IF axis = "y" THEN "horizontal" ELSE "vertical",
                [alignmentType |-> IF axis = "y" THEN "horizontal" ELSE "vertical",
                 misalignment |-> Round(misalignment),
                 tolerance |-> tolerance,
                 baseline |-> baseline,
                 elements |-> [i \in 1..Len(line) |->
                                 [selector |-> line[i].selector,
                                  position |-> line[i].rect[axis],
                                  diff |-> Abs(line[i].rect[axis] - baseline)]]])>>
       ELSE <<>>

checkHorizontalAlignment(snapshot, tolerance) ==
  LET rows == groupElementsByRow(snapshot.dom, tolerance)
  IN Flatten([r \in 1..Len(rows) |-> lineIssue(snapshot, rows[r], "y", tolerance)])

checkVerticalAlignment(snapshot, tolerance) ==
  LET columns == groupElementsByColumn(snapshot.dom, tolerance)
  IN Flatten([c \in 1..Len(columns) |->
       lineIssue(snapshot, columns[c], "x", tolerance)])

\* [...elements].sort(...) sorting the array itself
elementsAfterSort_inPlace(elements, sorted) == sorted

\* the array `elements` after const sorted = [...elements].sort(...): the
\* spread makes a new array and the sort orders that one
elementsAfterSort(elements, sorted) == elements

\* the comparator of calculateGaps: by x within 10px of the same y, else by y
gapOrder(a, b) ==
  IF Abs(a.rect.y - b.rect.y) < 10 * PX THEN a.rect.x - b.rect.x
  ELSE a.rect.y - b.rect.y

\* [...elements].sort(gapOrder), stable; the comparator orders the children
\* consistently when they lie in rows at least 10px apart
RECURSIVE sortForGaps(_)
sortForGaps(elements) ==
  IF elements = <<>> THEN <<>>
  ELSE LET k == CHOOSE k \in 1..Len(elements) :
                  /\ \A j \in 1..Len(elements) :
                       gapOrder(elements[k], elements[j]) <= 0
                  /\ \A j \in 1..(k - 1) :
                       gapOrder(elements[k], elements[j]) < 0
       IN <<elements[k]>>
          \o sortForGaps(SubSeq(elements, 1, k - 1)
                           \o SubSeq(elements, k + 1, Len(elements)))

\* a Map from rounded gap to count, as its entries in insertion order
gapEntries(gaps) ==
  LET keys == Unique(gaps)
  IN [k \in 1..Len(keys) |->
        [gap |-> keys[k],
         count |-> Cardinality({i \in 1..Len(gaps) : gaps[i] = keys[k]})]]

calculateGaps(elements) ==
  LET sorted == sortForGaps(elements)
      n == Len(sorted)
      horizontal == Flatten([i \in 1..(n - 1) |->
        LET gap == sorted[i + 1].rect.x - (sorted[i].rect.x + sorted[i].rect.width)
        IN IF Abs(sorted[i].rect.y - sorted[i + 1].rect.y) < 10 * PX /\ gap > 0
             THEN <<Round(gap)>> ELSE <<>>])
      vertical == Flatten([i \in 1..(n - 1) |->
        LET gap == sorted[i + 1].rect.y - (sorted[i].rect.y + sorted[i].rect.height)
        IN IF Abs(sorted[i].rect.x - sorted[i + 1].rect.x) < 10 * PX /\ gap > 0
             THEN <<Round(gap)>> ELSE <<>>])
  IN [horizontal |-> gapEntries(horizontal), vertical |-> gapEntries(vertical)]

\* Math.round(sum of the map's values / map.size): the values are the counts
averageOf(entries) ==
  IF entries = <<>> THEN NaN
  ELSE LET sum == Len(Flatten([k \in 1..Len(entries) |->
                        [c \in 1..entries[k].count |-> k]]))
       IN (2 * sum + Len(entries)) \div (2 * Len(entries))

checkGridAlignment(snapshot, tolerance) ==
  LET gridContainers == SelectSeq(snapshot.dom, LAMBDA el : Len(el.children) >= 4)
  IN Flatten([g \in 1..Len(gridContainers) |->
       LET container == gridContainers[g]
           gaps == calculateGaps(container.children)
       IN IF Len(gaps.horizontal) > 3 \/ Len(gaps.vertical) > 3
            THEN <<alignmentIssue(snapshot, container.selector, "grid",
                     [alignmentType |-> "grid",
                      childCount |-> Len(container.children),
                      horizontalGaps |-> gaps.horizontal,
                      verticalGaps |-> gaps.vertical,
                      suggestedHorizontalGap |-> averageOf(gaps.horizontal),
                      suggestedVerticalGap |-> averageOf(gaps.vertical)])>>
            ELSE <<>>])

\* the snapshots handed to detectMisalignment as the call leaves them: each
\* dom went through the sorts of groupElementsByRow and
\* groupElementsByColumn, the children of each grid container through the
\* sort of calculateGaps
afterDetectMisalignment(snapshots) ==
  [s \in 1..Len(snapshots) |->
     LET byRow == elementsAfterSort(snapshots[s].dom,
                    sortByPosition(snapshots[s].dom, "y"))
         byColumn == elementsAfterSort(byRow, sortByPosition(byRow, "x"))
     IN [snapshots[s] EXCEPT !.dom =
           [e \in 1..Len(byColumn) |->
              IF Len(byColumn[e].children) >= 4
                THEN [byColumn[e] EXCEPT !.children =
                        elementsAfterSort(@, sortForGaps(@))]
                ELSE byColumn[e]]]]

\* the emissions of detectMisalignment
detectMisalignment(snapshots, cfg) ==
  Flatten([s \in 1..Len(snapshots) |->
    checkHorizontalAlignment(snapshots[s], cfg.alignTolerancePx)
      \o checkVerticalAlignment(snapshots[s], cfg.alignTolerancePx)
      \o checkGridAlignment(snapshots[s], cfg.alignTolerancePx)])

-----------------------------------------------------------------------------
(* detectors/design-tokens.ts *)

Var(name) == [kind |-> "var", name |-> name]

\* value.includes('var('), value.includes('rem')
includesVar(value) == \E i \in 1..Len(value) : value[i].kind = "var"
includesRem(value) ==
  \E i \in 1..Len(value) : value[i].kind = "num" /\ value[i].unit = "rem"

\* parseInt of one piece, in whole pixels: the number cut off at the point,
\* or NaN for a piece that does not start with a digit
parseIntIsNaN(token) == token.kind # "num"
parseIntOf(token) ==
  IF token.v >= 0 THEN token.v \div PX ELSE -((-token.v) \div PX)

\* scale.includes(val) for a whole number of pixels
scaleIncludes(scale, val) == (val * PX) \in Range(scale)

tokenIssue(snapshot, element, message, details) ==
  [id |-> PendingId("DT"),
   type |-> "design-system",
   severity |-> "low",
   viewport |-> snapshot.viewport.name,
   element |-> element.selector,
   message |-> FixedMessage(message),
   details |-> details]

paddingTokens(element, snapshot, cfg) ==
  LET padding == RawStyle(element, "padding")
      pieces == split(padding)
  IN IF /\ Truthy(element, "padding")
        /\ ~includesVar(padding)
        /\ padding # Px(0)
        /\ \A i \in 1..Len(pieces) :
             /\ ~parseIntIsNaN(pieces[i])
             /\ scaleIncludes(cfg.spacingScale, parseIntOf(pieces[i]))
        /\ \E i \in 1..Len(pieces) : parseIntOf(pieces[i]) > 0
       THEN <<tokenIssue(snapshot, element, "padding",
                [property |-> "padding",
                 currentValue |-> padding,
                 spacingScale |-> cfg.spacingScale,
                 shouldUseTokens |-> TRUE])>>
       ELSE <<>>

marginTokens(element, snapshot, cfg) ==
  LET margin == RawStyle(element, "margin")
      pieces == split(margin)
      isAuto(t) == t = Word("auto")
  IN IF /\ Truthy(element, "margin")
        /\ ~includesVar(margin)
        /\ margin # Px(0)
        /\ margin # Str("auto")
        /\ \A i \in 1..Len(pieces) :
             \/ isAuto(pieces[i])
             \/ /\ ~parseIntIsNaN(pieces[i])
                /\ \/ parseIntOf(pieces[i]) = 0
                   \/ scaleIncludes(cfg.spacingScale, parseIntOf(pieces[i]))
        /\ \E i \in 1..Len(pieces) :
             ~isAuto(pieces[i]) /\ parseIntOf(pieces[i]) > 0
       THEN <<tokenIssue(snapshot, element, "margin",
                [property |-> "margin",
                 currentValue |-> margin,
                 spacingScale |-> cfg.spacingScale,
                 shouldUseTokens |-> TRUE])>>
       ELSE <<>>

checkSpacingTokens(element, snapshot, cfg) ==
  paddingTokens(element, snapshot, cfg) \o marginTokens(element, snapshot, cfg)

\* the normalizeColor of design-tokens.ts knows no colour names
normalizeTokenColor(color) == normalizeColorWith(color, <<>>)

\* config.colorPalette.some(p => colorDistance(normalized, p.toUpperCase()) < 10)
inPalette(normalized, palette) ==
  \E i \in 1..Len(palette) : colorDistance(normalized, palette[i]) < Distance(10)

colorTokenIssue(snapshot, element, property, cfg) ==
  tokenIssue(snapshot, element, property,
    [property |-> property,
     currentColor |-> RawStyle(element, property),
     palette |-> cfg.colorPalette,
     shouldUseToken |-> TRUE])

\* the background colour, then the text colour; a colour that does not
\* normalise ends the check
checkColorTokens(element, snapshot, cfg) ==
  LET bgColor == RawStyle(element, "backgroundColor")
      textColor == RawStyle(element, "color")
      bgChecked == /\ Truthy(element, "backgroundColor")
                   /\ ~includesVar(bgColor)
                   /\ bgColor # Transparent
                   /\ bgColor # ClearRgba
      textChecked == /\ Truthy(element, "color")
                     /\ ~includesVar(textColor)
                     /\ textColor # Transparent
      bgIssue == IF bgChecked /\ inPalette(normalizeTokenColor(bgColor),
                                           cfg.colorPalette)
                   THEN <<colorTokenIssue(snapshot, element, "backgroundColor", cfg)>>
                   ELSE <<>>
      textIssue == IF textChecked /\ inPalette(normalizeTokenColor(textColor),
                                               cfg.colorPalette)
                     THEN <<colorTokenIssue(snapshot, element, "color", cfg)>>
                     ELSE <<>>
  IN IF bgChecked /\ normalizeTokenColor(bgColor) = NoColor THEN <<>>
     ELSE IF textChecked /\ normalizeTokenColor(textColor) = NoColor THEN bgIssue
     ELSE bgIssue \o textIssue

standardRadii == {4, 8, 12, 16, 24}

checkBorderRadiusTokens(element, snapshot) ==
  LET borderRadius == RawStyle(element, "borderRadius")
  IN IF /\ Truthy(element, "borderRadius")
        /\ ~includesVar(borderRadius)
        /\ borderRadius # Px(0)
        /\ ~parseIntIsNaN(borderRadius[1])
        /\ parseIntOf(borderRadius[1]) \in standardRadii
       THEN <<tokenIssue(snapshot, element, "border-radius",
                [property |-> "borderRadius",
                 currentValue |-> borderRadius,
                 suggestedToken |-> parseIntOf(borderRadius[1])])>>
       ELSE <<>>

\* the 0-based index of the first occurrence
indexOf(seq, v) == (CHOOSE i \in 1..Len(seq) :
                      seq[i] = v /\ \A j \in 1..(i - 1) : seq[j] # v) - 1

checkTypographyTokens(element, snapshot, cfg) ==
  LET fontSize == RawStyle(element, "fontSize")
  IN IF /\ Truthy(element, "fontSize")
        /\ ~includesVar(fontSize)
        /\ ~includesRem(fontSize)
        /\ ~parseFloatStrIsNaN(fontSize)
        /\ parseFloatStr(fontSize) \in Range(cfg.typescale.sizes)
       THEN <<tokenIssue(snapshot, element, "font-size",
                [property |-> "fontSize",
                 currentValue |-> fontSize,
                 typescale |-> cfg.typescale.sizes,
                 suggestedToken |->
                   indexOf(cfg.typescale.sizes, parseFloatStr(fontSize))])>>
       ELSE <<>>

\* the emissions of enforceDesignTokens: every element once per
\* (selector, viewport name), the first one met
enforceDesignTokens(snapshots, cfg) ==
  LET keyed == Flatten([s \in 1..Len(snapshots) |->
                 [e \in 1..Len(snapshots[s].dom) |->
                    [key |-> <<snapshots[s].dom[e].selector,
                               snapshots[s].viewport.name>>,
                     snapshot |-> snapshots[s],
                     element |-> snapshots[s].dom[e]]]])
  IN Flatten([i \in 1..Len(keyed) |->
       IF \E j \in 1..(i - 1) : keyed[j].key = keyed[i].key THEN <<>>
       ELSE checkSpacingTokens(keyed[i].element, keyed[i].snapshot, cfg)
              \o checkColorTokens(keyed[i].element, keyed[i].snapshot, cfg)
              \o checkBorderRadiusTokens(keyed[i].element, keyed[i].snapshot)
              \o checkTypographyTokens(keyed[i].element, keyed[i].snapshot, cfg)])

-----------------------------------------------------------------------------
(* detectors/responsive.ts *)

\* value.endsWith('px')
endsWithPx(value) ==
  /\ value # EmptyString
  /\ value[Len(value)].kind = "num"
  /\ value[Len(value)].unit = "px"

\* w && w.endsWith('px') && parseInt(w) > limit, the limit in whole pixels
fixedWiderThan(element, limit) ==
  /\ Truthy(element, "width")
  /\ endsWithPx(element.computedStyle["width"])
  /\ ~parseIntIsNaN(element.computedStyle["width"][1])
  /\ parseIntOf(element.computedStyle["width"][1]) > limit

responsiveIssue(type, severity, viewport, element, message, details) ==
  [id |-> PendingId("RWD"),
   type |-> type,
   severity |-> severity,
   viewport |-> viewport,
   element |-> element,
   message |-> FixedMessage(message),
   details |-> details]

\* elementsBySelector.get(selector): one { element, viewport } entry per
\* viewport name in order of first insertion, holding the last element set
viewportDataOf(snapshots, selector) ==
  LET hits == Flatten([s \in 1..Len(snapshots) |->
                LET same == SelectSeq(snapshots[s].dom,
                              LAMBDA el : el.selector = selector)
                IN [e \in 1..Len(same) |->
                      [name |-> snapshots[s].viewport.name,
                       element |-> same[e],
                       viewport |-> snapshots[s].viewport]]])
      names == Unique([h \in 1..Len(hits) |-> hits[h].name])
  IN [k \in 1..Len(names) |->
        LET ofName == SelectSeq(hits, LAMBDA h : h.name = names[k])
        IN ofName[Len(ofName)]]

\* parseFloat(fontSize || '16')
fontSizeNumber(element) ==
  LET fontSize == StyleOr(element, "fontSize", <<Num(16 * PX, "")>>)
  IN IF parseFloatStrIsNaN(fontSize) THEN [nan |-> TRUE]
     ELSE [nan |-> FALSE, v |-> parseFloatStr(fontSize)]

\* fixedFontSize with fontSize >= 24 in place of fontSize > 24
fixedFontSize_from24(selector, viewports) ==
  LET fontSizes == [k \in 1..Len(viewports) |->
                      fontSizeNumber(viewports[k].element)]
      fontSize == fontSizes[1]
  IN IF /\ Len(Unique(fontSizes)) = 1
        /\ ~fontSize.nan
        /\ fontSize.v >= 24 * PX
       THEN <<responsiveIssue("design-system", "medium", "all", selector,
                "fixed-font-size",
                [property |-> "font-size",
                 fixedValue |-> Round(fontSize.v),
                 viewports |-> [k \in 1..Len(viewports) |->
                                  [name |-> viewports[k].name,
                                   width |-> viewports[k].viewport.width,
                                   fontSize |-> Round(fontSize.v)]]])>>
       ELSE <<>>

fixedFontSize(selector, viewports) ==
  LET fontSizes == [k \in 1..Len(viewports) |->
                      fontSizeNumber(viewports[k].element)]
      fontSize == fontSizes[1]
  IN IF /\ Len(Unique(fontSizes)) = 1
        /\ ~fontSize.nan
        /\ fontSize.v > 24 * PX
       THEN <<responsiveIssue("design-system", "medium", "all", selector,
                "fixed-font-size",
                [property |-> "font-size",
                 fixedValue |-> Round(fontSize.v),
                 viewports |-> [k \in 1..Len(viewports) |->
                                  [name |-> viewports[k].name,
                                   width |-> viewports[k].viewport.width,
                                   fontSize |-> Round(fontSize.v)]]])>>
       ELSE <<>>

fixedPadding(selector, viewports) ==
  LET paddings == [k \in 1..Len(viewports) |->
                     RawStyle(viewports[k].element, "padding")]
      padding == paddings[1]
      pieces == split(padding)
      maxPadding == SeqMax([i \in 1..Len(pieces) |-> parseIntOf(pieces[i])])
  IN IF /\ Len(Unique(paddings)) = 1
        /\ Truthy(viewports[1].element, "padding")
        /\ padding # Px(0)
        /\ \A i \in 1..Len(pieces) : ~parseIntIsNaN(pieces[i])
        /\ maxPadding > 32
       THEN <<responsiveIssue("design-system", "medium", "all", selector,
                "fixed-padding",
                [property |-> "padding",
                 fixedValue |-> padding,
                 maxPadding |-> maxPadding,
                 viewports |-> [k \in 1..Len(viewports) |->
                                  [name |-> viewports[k].name,
                                   width |-> viewports[k].viewport.width]]])>>
       ELSE <<>>

fixedWidth(selector, viewports) ==
  IF \A k \in 1..Len(viewports) : fixedWiderThan(viewports[k].element, 600)
    THEN <<responsiveIssue("design-system", "high", "all", selector,
             "fixed-width",
             [property |-> "width",
              fixedValue |-> RawStyle(viewports[1].element, "width"),
              viewports |-> [k \in 1..Len(viewports) |-> viewports[k].name]])>>
    ELSE <<>>

detectNonResponsiveElements(snapshots, cfg) ==
  LET selectors == Unique(Flatten([s \in 1..Len(snapshots) |->
                     [e \in 1..Len(snapshots[s].dom) |->
                        snapshots[s].dom[e].selector]]))
  IN Flatten([k \in 1..Len(selectors) |->
       LET viewports == viewportDataOf(snapshots, selectors[k])
       IN IF Len(viewports) < 3 THEN <<>>
          ELSE fixedFontSize(selectors[k], viewports)
                 \o fixedPadding(selectors[k], viewports)
                 \o fixedWidth(selectors[k], viewports)])

\* snapshots.find(pred): the first snapshot in list order, <<>> when none
findSnapshot(snapshots, pred(_)) ==
  LET found == SelectSeq(snapshots, pred)
  IN IF found = <<>> THEN <<>> ELSE <<found[1]>>

detectFixedWidths(snapshots) ==
  LET mobileSnapshot == findSnapshot(snapshots, LAMBDA s :
                          s.viewport.width <= 414 * PX /\ s.viewport.width >= 320 * PX)
  IN IF mobileSnapshot = <<>> THEN <<>>
     ELSE LET mobile == mobileSnapshot[1]
              viewportWidth == mobile.viewport.width
          IN Flatten([e \in 1..Len(mobile.dom) |->
               LET element == mobile.dom[e]
                   width == RawStyle(element, "width")
               IN IF /\ Truthy(element, "width")
                     /\ endsWithPx(width)
                     /\ ~parseIntIsNaN(width[1])
                     /\ parseIntOf(width[1]) * PX > viewportWidth
                    THEN <<responsiveIssue("overflow", "high",
                             mobile.viewport.name, element.selector,
                             "wider-than-viewport",
                             [elementWidth |-> parseIntOf(width[1]) * PX,
                              viewportWidth |-> viewportWidth,
                              overflow |->
                                parseIntOf(width[1]) * PX - viewportWidth])>>
                    ELSE <<>>])

detectResponsiveOverflow(snapshots) ==
  LET desktopSnapshot == findSnapshot(snapshots, LAMBDA s :
                           s.viewport.width >= 1440 * PX)
      mobileSnapshot == findSnapshot(snapshots, LAMBDA s :
                          s.viewport.width <= 414 * PX)
  IN IF desktopSnapshot = <<>> \/ mobileSnapshot = <<>> THEN <<>>
     ELSE LET desktop == desktopSnapshot[1]
              mobile == mobileSnapshot[1]
          IN Flatten([e \in 1..Len(desktop.dom) |->
               LET desktopElement == desktop.dom[e]
                   matching == SelectSeq(mobile.dom, LAMBDA el :
                                 el.selector = desktopElement.selector)
               IN IF matching = <<>> THEN <<>>
                  ELSE LET desktopWidth == desktopElement.rect.width
                           mobileWidth == matching[1].rect.width
                       IN IF /\ desktopWidth > 800 * PX
                             /\ 10 * mobileWidth > 9 * mobile.viewport.width
                            THEN <<responsiveIssue("design-system", "medium",
                                     mobile.viewport.name,
                                     desktopElement.selector,
                                     "barely-fits",
                                     [desktopWidth |-> Round(desktopWidth),
                                      mobileWidth |-> Round(mobileWidth),
                                      mobileViewport |-> mobile.viewport.width,
                                      widthRatio |->
                                        (2000 * mobileWidth + mobile.viewport.width)
                                          \div (2 * mobile.viewport.width)])>>
                            ELSE <<>>])

\* the emissions of enforceResponsiveDesign
enforceResponsiveDesign(snapshots, cfg) ==
  detectNonResponsiveElements(snapshots, cfg)
    \o detectFixedWidths(snapshots)
    \o detectResponsiveOverflow(snapshots)

-----------------------------------------------------------------------------
(* core/audit-engine.ts: buildSummary *)

byTypeInit ==
  [t \in {"overflow", "spacing", "typescale", "colors", "accessibility",
          "design-system"} |-> 0]

\* summary.byType[issue.type]++
byTypeIncr(byType, t) ==
  IF t \in DOMAIN byType
    THEN [byType EXCEPT ![t] = IF @ = NaN THEN NaN ELSE @ + 1]
    ELSE [k \in DOMAIN byType \cup {t} |-> IF k = t THEN NaN ELSE byType[k]]

\* if (!summary.byViewport[v]) summary.byViewport[v] = 0; summary.byViewport[v]++
byViewportIncr(byViewport, v) ==
  LET known == v \in DOMAIN byViewport /\ byViewport[v] # 0
      cur == IF known THEN byViewport[v] ELSE 0
  IN [k \in DOMAIN byViewport \cup {v} |-> IF k = v THEN cur + 1 ELSE byViewport[k]]

severityCount(issues, sev) ==
  Cardinality({i \in 1..Len(issues) : issues[i].severity = sev})

RECURSIVE summaryLoop(_, _, _)
summaryLoop(issues, i, summary) ==
  IF i > Len(issues) THEN summary
  ELSE summaryLoop(issues, i + 1,
         [summary EXCEPT !.byType = byTypeIncr(@, issues[i].type),
                         !.byViewport = byViewportIncr(@, issues[i].viewport)])

buildSummary(issues) ==
  summaryLoop(issues, 1,
    [total |-> Len(issues),
     critical |-> severityCount(issues, "critical"),
     high |-> severityCount(issues, "high"),
     medium |-> severityCount(issues, "medium"),
     low |-> severityCount(issues, "low"),
     byType |-> byTypeInit,
     byViewport |-> <<>>])

-----------------------------------------------------------------------------
(* types/config.ts: defaultConfig *)

Scaled(seq) == [i \in DOMAIN seq |-> seq[i] * PX]

\* contrast ratios are kept in tenths (4.5 is 45, 7.0 is 70)
defaultConfig ==
  [spacingScale |-> Scaled(<<0, 4, 8, 12, 16, 24, 32, 48, 64>>),
   typescale |-> [base |-> 16, ratio |-> 125,
                  sizes |-> Scaled(<<12, 14, 16, 20, 25, 31, 39, 49>>)],
   colorPalette |-> <<Hex(245, 230, 211), Hex(212, 165, 116), Hex(139, 115, 85),
                      Hex(232, 153, 141), Hex(156, 169, 134), Hex(180, 167, 214)>>,
   alignTolerancePx |-> 4 * PX,
   contrastRatios |-> [AA |-> 45, AAA |-> 70],
   failOn |-> {"critical", "high"},
   features |-> {"overflow", "spacing", "typescale", "colors", "accessibility",
                 "design-system"},
   anthropicApiKey |-> FALSE]

-----------------------------------------------------------------------------
(* Specification SpecSummary: buildSummary applied to bounded issue lists *)

SummaryViewports == {"mobile", "desktop"}

SummaryIssue ==
  [type : AuditFeature, severity : IssueSeverity, viewport : SummaryViewports]

IdleRuns == <<>>

InitSummary ==
  /\ counter = 0
  /\ config = <<>>
  /\ runs = IdleRuns
  /\ input \in [issues : SeqsUpTo(SummaryIssue, MaxIssues)]
  /\ calls = <<>>

CallBuildSummary ==
  /\ calls = <<>>
  /\ "issues" \in DOMAIN input
  /\ calls' = <<Call("buildSummary", Returned(buildSummary(input.issues)))>>
  /\ UNCHANGED <<counter, config, runs, input>>

NextSummary == CallBuildSummary

SpecSummary == InitSummary /\ [][NextSummary]_vars

-----------------------------------------------------------------------------
(* C4 *)

NumberOf(issues, field, v) ==
  Cardinality({i \in 1..Len(issues) : issues[i][field] = v})

\* C4: buildSummary returns total = list length, each severity count = the
\* number of issues of that severity, byType[t] = the number of issues of
\* type t for every issue type t (a type without a counter must not occur),
\* and byViewport has exactly one counter per viewport name that occurs,
\* holding the number of issues on that viewport.
C4_SummaryCounts ==
  (calls # <<>> /\ calls[1].fn = "buildSummary") =>
    LET issues == input.issues
        s == calls[1].value
    IN /\ s.total = Len(issues)
       /\ \A sev \in IssueSeverity : s[sev] = NumberOf(issues, "severity", sev)
       /\ \A t \in AuditFeature :
            IF t \in DOMAIN s.byType
              THEN s.byType[t] = NumberOf(issues, "type", t)
              ELSE NumberOf(issues, "type", t) = 0
       /\ DOMAIN s.byViewport = {issues[i].viewport : i \in 1..Len(issues)}
       /\ \A v \in DOMAIN s.byViewport :
            s.byViewport[v] = NumberOf(issues, "viewport", v)

-----------------------------------------------------------------------------
(* Specification SpecDetect: the scale and overflow analyzers called       *)
(* directly, each up to twice on the same snapshots and config             *)

MaxRoots == 2      \* longest snapshot.dom

Mobile == [name |-> "mobile", width |-> 375 * PX, height |-> 667 * PX]
Desktop == [name |-> "desktop", width |-> 1440 * PX, height |-> 900 * PX]

Rect(w, h) == [x |-> 0, y |-> 0, width |-> w * PX, height |-> h * PX]

Element(selector, tagName, rect, style, children) ==
  [selector |-> selector, tagName |-> tagName, classes |-> <<>>, id |-> "",
   rect |-> rect, computedStyle |-> style, children |-> children]

NoStyle == <<>>

Snapshot(viewport, dom, overflowing) ==
  [viewport |-> viewport, screenshot |-> viewport.name, dom |-> dom,
   metrics |-> [overflowingElements |-> overflowing], errors |-> <<>>]

\* margin 15px against padding 8px (spacing.test.ts), the same on scale, a
\* margin less than 1px away from 16px, a shorthand mixing on-scale,
\* off-scale and `auto`, a negative margin, an empty margin, font sizes on
\* and off the typescale, and the overflow properties
DetectElements ==
  { Element(".test", "DIV", Rect(100, 100),
            [margin |-> Px(15), padding |-> Px(8)], <<>>),
    Element(".ok", "DIV", Rect(100, 100),
            [margin |-> Px(16), padding |-> Px(8)], <<>>),
    Element(".near", "DIV", Rect(100, 100),
            [margin |-> <<Num(15 * PX + 1, "px")>>, overflowX |-> Str("hidden")],
            <<>>),
    Element(".multi", "P", Rect(500, 40),
            [margin |-> <<Num(10 * PX, "px"), Num(15 * PX, "px"),
                          Num(16 * PX, "px"), Word("auto")>>,
             fontSize |-> Px(15)], <<>>),
    Element(".neg", "SPAN", Rect(0, 0),
            [margin |-> <<Num(-4 * PX, "px")>>, padding |-> EmptyString,
             fontSize |-> Px(0)], <<>>),
    Element("img", "IMG", Rect(500, 100),
            [fontSize |-> Px(15), overflow |-> Str("hidden"),
             overflowX |-> Str("visible")], <<>>),
    Element("li", "LI", Rect(200, 20),
            [fontSize |-> <<Num(16 * PX + 1, "px")>>, overflow |-> Str("hidden")],
            <<>>),
    Element("body", "BODY", Rect(375, 667), NoStyle,
            <<Element(".child", "DIV", Rect(100, 100),
                      [margin |-> Px(15), fontSize |-> Px(15)], <<>>)>>) }

DetectSnapshots ==
  {<<>>}
  \cup {<<Snapshot(Mobile, dom, n)>> :
          dom \in SeqsUpTo(DetectElements, MaxRoots), n \in {0, 1}}
  \cup {<<Snapshot(Mobile, dom, 1),
          Snapshot(Desktop, <<Element(".test", "DIV", Rect(100, 100),
                                      [margin |-> Px(15)], <<>>)>>, 0)>> :
          dom \in SeqsUpTo(DetectElements, 1)}

\* the default scales, empty scales, unsorted scales, a one-entry scale
DetectConfigs ==
  { defaultConfig,
    [defaultConfig EXCEPT !.spacingScale = <<>>],
    [defaultConfig EXCEPT !.typescale.sizes = <<>>],
    [defaultConfig EXCEPT !.spacingScale = Scaled(<<16, 0, 8, 14>>),
                          !.typescale.sizes = Scaled(<<20, 12, 16, 14>>)],
    [defaultConfig EXCEPT !.spacingScale = Scaled(<<8>>)] }

DetectFns == {"analyzeSpacing", "enforceTypescale", "detectOverflow"}

emissionsOf(fn, snapshots, cfg) ==
  CASE fn = "analyzeSpacing" -> analyzeSpacing(snapshots, cfg)
    [] fn = "enforceTypescale" -> enforceTypescale(snapshots, cfg)
    [] fn = "detectOverflow" -> detectOverflow(snapshots, cfg)
    [] fn = "checkAccessibility" -> checkAccessibility(snapshots, cfg)
    [] fn = "analyzeColors" -> analyzeColors(snapshots, cfg)
    [] fn = "detectDesignSystemChaos" -> detectDesignSystemChaos(snapshots, cfg)
    [] fn = "detectMisalignment" -> detectMisalignment(snapshots, cfg)
    [] fn = "enforceDesignTokens" -> enforceDesignTokens(snapshots, cfg)
    [] fn = "enforceResponsiveDesign" -> enforceResponsiveDesign(snapshots, cfg)

InitDetect ==
  /\ counter = 0
  /\ config \in DetectConfigs
  /\ runs = IdleRuns
  /\ input \in [snapshots : DetectSnapshots]
  /\ calls = <<>>

\* a first call of one analyzer
CallAnalyzer(fn, seed) ==
  /\ calls = <<>>
  /\ "snapshots" \in DOMAIN input
  /\ LET o == callOutcome(emissionsOf(fn, input.snapshots, config), counter, seed)
     IN /\ calls' = <<Call(fn, o.ret)>>
        /\ counter' = o.counter
  /\ UNCHANGED <<config, runs, input>>

\* the same analyzer called once more on the same arguments
CallAnalyzerAgain(seed) ==
  /\ Len(calls) = 1
  /\ calls[1].fn \in DetectFns
  /\ LET o == callOutcome(emissionsOf(calls[1].fn, input.snapshots, config),
                          counter, seed)
     IN /\ calls' = Append(calls, Call(calls[1].fn, o.ret))
        /\ counter' = o.counter
  /\ UNCHANGED <<config, runs, input>>

NextDetect ==
  \/ \E fn \in DetectFns, seed \in 0..(RandomVariants - 1) : CallAnalyzer(fn, seed)
  \/ \E seed \in 0..(RandomVariants - 1) : CallAnalyzerAgain(seed)

SpecDetect == InitDetect /\ [][NextDetect]_vars

-----------------------------------------------------------------------------
(* C5 - C8 *)

\* the fields of an issue that do not depend on the phrasing or the counter
Essence(issue) ==
  [type |-> issue.type, severity |-> issue.severity,
   viewport |-> issue.viewport, element |-> issue.element,
   details |-> issue.details]

EssenceOf(issues) == [i \in 1..Len(issues) |-> Essence(issues[i])]

C6_ScaleAnalyzersNeverRaise ==
  \A i \in 1..Len(calls) :
    calls[i].fn \in {"analyzeSpacing", "enforceTypescale"} =>
      calls[i].state = "returned"

\* v > 0 and no scale entry s with |v - s| < 1px
OffScale(v, scale) ==
  v > 0 /\ \A i \in 1..Len(scale) : ~(Abs(v - scale[i]) < PX)

\* what the on-scale rule says analyzeSpacing reports for the elements of
\* `dom`: one (viewport, element, property, value) per off-scale component
ExpectedSpacing(snapshot, dom, scale) ==
  Flatten([e \in 1..Len(dom) |->
    LET entries == allSpacingValues(dom[e])
        off == SelectSeq(entries, LAMBDA x : OffScale(x.value, scale))
    IN [i \in 1..Len(off) |->
          [viewport |-> snapshot.viewport.name, element |-> dom[e].selector,
           property |-> off[i].type, value |-> off[i].value]]])

ReportedSpacing(call) ==
  IF call.state = "returned"
    THEN [i \in 1..Len(call.value) |->
            [viewport |-> call.value[i].viewport,
             element |-> call.value[i].element,
             property |-> call.value[i].details.property,
             value |-> call.value[i].details.value]]
    ELSE <<>>

\* C7: for every numeric component v parsed from the margin or padding of an
\* element of snapshot.dom, analyzeSpacing emits a medium 'spacing' issue
\* for v exactly when v > 0 and no scale entry is less than 1px away.
C7_SpacingOnScaleRule ==
  \A i \in 1..Len(calls) :
    calls[i].fn = "analyzeSpacing" =>
      /\ ReportedSpacing(calls[i]) =
           Flatten([s \in 1..Len(input.snapshots) |->
             ExpectedSpacing(input.snapshots[s], input.snapshots[s].dom,
                             config.spacingScale)])
      /\ calls[i].state = "returned" =>
           \A k \in 1..Len(calls[i].value) :
             /\ calls[i].value[k].type = "spacing"
             /\ calls[i].value[k].severity = "medium"

\* every element of a forest: the roots and all their descendants, in
\* document order
RECURSIVE Forest(_)
Forest(dom) ==
  Flatten([e \in 1..Len(dom) |-> <<dom[e]>> \o Forest(dom[e].children)])

\* C8: analyzeSpacing evaluates the margin and padding of every ElementNode
\* of every snapshot, descendants included: when it returns, each off-scale
\* component of each element of the forest is reported.
C8_SpacingExaminesDescendants ==
  \A i \in 1..Len(calls) :
    (calls[i].fn = "analyzeSpacing" /\ calls[i].state = "returned") =>
      \A s \in 1..Len(input.snapshots) :
        \A x \in Range(ExpectedSpacing(input.snapshots[s],
                                       Forest(input.snapshots[s].dom),
                                       config.spacingScale)) :
          x \in Range(ReportedSpacing(calls[i]))

-----------------------------------------------------------------------------
(* Specification SpecA11y: checkAccessibility called directly *)

A11yFontSizes ==
  {Px(16), <<Num(18 * PX - 1, "px")>>, Px(18), Px(24), Px(0), Str("inherit")}

\* greys around the AA and AAA thresholds on white, pure red, and strings
\* parseColor does not read
A11yColors ==
  {<<Rgb(170, 170, 170)>>, <<Hex(119, 119, 119)>>, <<Hex(118, 118, 118)>>,
   <<Rgb(90, 90, 90)>>, <<Hex(0, 0, 0)>>, <<Rgb(255, 0, 0)>>,
   <<Rgba(0, 0, 0, 1)>>, Str("red")}

A11yBackgrounds ==
  {<<Rgb(255, 255, 255)>>, <<Hex(0, 0, 0)>>, <<Rgba(255, 255, 255, 1)>>,
   Str("white")}

StyleFrom(pairs) ==
  [p \in {x[1] : x \in pairs} |-> (CHOOSE x \in pairs : x[1] = p)[2]]

\* text elements with every combination of font size, colour and background,
\* each property present or missing
A11yElements ==
  {Element(".text", "P", Rect(300, 50), StyleFrom(fs \cup fg \cup bg), <<>>) :
     fs \in {{}} \cup {{<<"fontSize", f>>} : f \in A11yFontSizes},
     fg \in {{}} \cup {{<<"color", c>>} : c \in A11yColors},
     bg \in {{}} \cup {{<<"backgroundColor", c>>} : c \in A11yBackgrounds}}

\* the elements of the accessibility tests, for the longer doms
A11yCore ==
  { Element(".low-contrast-text", "P", Rect(300, 50),
            [color |-> <<Rgb(170, 170, 170)>>,
             backgroundColor |-> <<Rgb(255, 255, 255)>>,
             fontSize |-> Px(16)], <<>>),
    Element(".good-contrast-text", "P", Rect(300, 50),
            [color |-> <<Rgb(0, 0, 0)>>,
             backgroundColor |-> <<Rgb(255, 255, 255)>>,
             fontSize |-> Px(16)], <<>>),
    Element(".named", "P", Rect(300, 50),
            [color |-> Str("red"), backgroundColor |-> <<Hex(0, 0, 0)>>,
             fontSize |-> Px(18)], <<>>) }

A11ySnapshots ==
  {<<Snapshot(Desktop, dom, 0)>> :
     dom \in SeqsUpTo(A11yElements, 1) \cup SeqsUpTo(A11yCore, MaxRoots)}
  \cup {<<Snapshot(Mobile, <<e>>, 0), Snapshot(Desktop, <<e>>, 0)>> : e \in A11yCore}

\* the default ratios, a pair with AAA at the black-on-white maximum, and a
\* pair with AA above AAA
A11yConfigs ==
  { defaultConfig,
    [defaultConfig EXCEPT !.contrastRatios = [AA |-> 30, AAA |-> 210]],
    [defaultConfig EXCEPT !.contrastRatios = [AA |-> 70, AAA |-> 45]] }

InitA11y ==
  /\ counter = 0
  /\ config \in A11yConfigs
  /\ runs = IdleRuns
  /\ input \in [snapshots : A11ySnapshots]
  /\ calls = <<>>

CallCheckAccessibility(seed) ==
  /\ calls = <<>>
  /\ "snapshots" \in DOMAIN input
  /\ LET o == callOutcome(checkAccessibility(input.snapshots, config),
                          counter, seed)
     IN /\ calls' = <<Call("checkAccessibility", o.ret)>>
        /\ counter' = o.counter
  /\ UNCHANGED <<config, runs, input>>

NextA11y == \E seed \in 0..(RandomVariants - 1) : CallCheckAccessibility(seed)

SpecA11y == InitA11y /\ [][NextA11y]_vars

-----------------------------------------------------------------------------
(* C9, C10 *)

\* the colour string is missing, or is one parseColor reads
Readable(el, prop) ==
  ~Truthy(el, prop) \/ parseColor(el.computedStyle[prop]) # NoColor

\* the colour used for a property: the parsed one, else the default
ColorOr(el, prop, dflt) ==
  IF Truthy(el, prop) /\ parseColor(el.computedStyle[prop]) # NoColor
    THEN parseColor(el.computedStyle[prop])
    ELSE parseColor(<<dflt>>)

Black == Hex(0, 0, 0)
White == Hex(255, 255, 255)

\* what the contrast rule reports for the text elements of `dom` that
\* satisfy `examined`: one (viewport, element, required) per element whose
\* contrast ratio, with black / white standing in for a colour that is not
\* available, is strictly below the ratio required for its font size
ExpectedContrast(snapshot, cfg, examined(_)) ==
  LET els == SelectSeq(snapshot.dom,
                       LAMBDA el : isTextElement(el) /\ examined(el))
      req(el) == IF parseFloatStr(el.computedStyle["fontSize"]) < 18 * PX
                   THEN cfg.contrastRatios.AAA ELSE cfg.contrastRatios.AA
      ratio(el) == calculateContrast(ColorOr(el, "color", Black),
                                     ColorOr(el, "backgroundColor", White))
      low == SelectSeq(els, LAMBDA el : ratio(el).num * 10 < req(el) * ratio(el).den)
  IN [i \in 1..Len(low) |->
        [viewport |-> snapshot.viewport.name, element |-> low[i].selector,
         required |-> req(low[i]), severity |-> "high", passes |-> FALSE]]

ReportedContrast(call) ==
  [i \in 1..Len(call.value) |->
     [viewport |-> call.value[i].viewport, element |-> call.value[i].element,
      required |-> call.value[i].details.required,
      severity |-> call.value[i].severity,
      passes |-> call.value[i].details.passes]]

ExaminedForContrast(el) == Readable(el, "color") /\ Readable(el, "backgroundColor")

\* C9: for every examined element (font-size > 0, colours missing or
\* readable) the required ratio is contrastRatios.AAA when font-size < 18px
\* and contrastRatios.AA otherwise, and checkAccessibility emits exactly one
\* high-severity issue (passes = false, details.required = that ratio) if
\* and only if the element's contrast ratio is strictly below it; the
\* issues come in element order and there are no others.
C9_ContrastRule ==
  \A i \in 1..Len(calls) :
    calls[i].fn = "checkAccessibility" =>
      /\ calls[i].state = "returned"
      /\ ReportedContrast(calls[i]) =
           Flatten([s \in 1..Len(input.snapshots) |->
             ExpectedContrast(input.snapshots[s], config, ExaminedForContrast)])

\* a dom of two examined elements of which exactly one is reported
C9_Witness ==
  /\ Len(calls) = 1
  /\ calls[1].fn = "checkAccessibility"
  /\ calls[1].state = "returned"
  /\ Len(calls[1].value) = 1
  /\ Len(input.snapshots) = 1
  /\ Len(input.snapshots[1].dom) = 2
  /\ \A e \in 1..2 : /\ isTextElement(input.snapshots[1].dom[e])
                     /\ ExaminedForContrast(input.snapshots[1].dom[e])

\* C10: an element whose color or background-color is present but cannot be
\* parsed is not skipped: black stands in for the foreground, white for the
\* background, and its contrast is evaluated like that of any text element.
C10_UnparseableColorsDefaulted ==
  \A i \in 1..Len(calls) :
    (calls[i].fn = "checkAccessibility" /\ calls[i].state = "returned") =>
      ReportedContrast(calls[i]) =
        Flatten([s \in 1..Len(input.snapshots) |->
          ExpectedContrast(input.snapshots[s], config, LAMBDA el : TRUE)])

-----------------------------------------------------------------------------
(* core/claude.ts: ClaudeAnalyzer.analyzeVisualIssues *)

MaxAiIssues == 1    \* longest `issues` array of an AI response

JsonNull == [json |-> "null"]

\* the entries an `issues` array of the model may hold: null, and an entry
\* with a description only
AiItems ==
  { JsonNull, [description |-> "description"] }

\* what the Messages API call and JSON.parse can come to: a failure before
\* any entry is read (the request rejects, the content is not text, the text
\* is not JSON), a JSON value without an `issues` array, or an `issues` array
AiResponses ==
  { [kind |-> "failed"], [kind |-> "noIssuesArray"] }
  \cup {[kind |-> "issues", issues |-> items] :
          items \in SeqsUpTo(AiItems, MaxAiIssues)}

FieldOr(item, field, dflt) ==
  IF field \in DOMAIN item THEN item[field] ELSE dflt

\* the object literal built for one entry, the counter being at c; the id is
\* taken first, then the entry's fields are read
aiIssue(item, snapshot, c) ==
  [id |-> generateId("AI", c),
   type |-> FieldOr(item, "type", "overflow"),
   severity |-> FieldOr(item, "severity", "medium"),
   viewport |-> snapshot.viewport.name,
   element |-> FieldOr(item, "location", "Unknown"),
   message |-> FixedMessage(FieldOr(item, "roast",
                              FieldOr(item, "description", "undefined"))),
   details |-> [aiDetected |-> TRUE,
                description |-> FieldOr(item, "description", "undefined"),
                visualIssue |-> TRUE],
   screenshot |-> snapshot.screenshot]

\* aiResponse.issues.map(...): every entry takes an id; reading a field of
\* null throws after the id was taken
RECURSIVE mapAiIssues(_, _, _, _)
mapAiIssues(items, snapshot, c, mapped) ==
  IF items = <<>> THEN [ret |-> Returned(mapped), counter |-> c]
  ELSE IF Head(items) = JsonNull
    THEN [ret |-> Threw("TypeError"), counter |-> c + 1]
  ELSE mapAiIssues(Tail(items), snapshot, c + 1,
                   Append(mapped, aiIssue(Head(items), snapshot, c)))

ok(value) == [ok |-> TRUE, value |-> value]
err(code) == [ok |-> FALSE, error |-> [code |-> code]]

\* analyzeVisualIssues for one snapshot, the counter being at c: the
\* KarenResult it resolves to and where it leaves the counter
analyzeVisualIssues(response, snapshot, c) ==
  CASE response.kind = "failed" ->
         [result |-> err("AI_ERROR"), counter |-> c]
    [] response.kind = "noIssuesArray" ->
         [result |-> ok(<<>>), counter |-> c]
    [] response.kind = "issues" ->
         LET o == mapAiIssues(response.issues, snapshot, c, <<>>)
         IN [result |-> IF o.ret.state = "returned" THEN ok(o.ret.value)
                        ELSE err("AI_ERROR"),
             counter |-> o.counter]

-----------------------------------------------------------------------------
(* core/audit-engine.ts: runAudit *)

MaxRuns == 2        \* runAudit calls made on the engine

\* Phase 2: the detectors in the order runAudit calls them
\* codeDetectors with analyzeSpacing called before detectOverflow
codeDetectors_spacingFirst ==
  <<"analyzeSpacing", "detectOverflow", "enforceTypescale",
    "checkAccessibility", "analyzeColors", "detectDesignSystemChaos",
    "detectMisalignment", "enforceDesignTokens", "enforceResponsiveDesign">>

codeDetectors ==
  <<"detectOverflow", "analyzeSpacing", "enforceTypescale",
    "checkAccessibility", "analyzeColors", "detectDesignSystemChaos",
    "detectMisalignment", "enforceDesignTokens", "enforceResponsiveDesign">>

\* mutant: every detector runs when 'design-system' is enabled
featureOf_designSystem(fn) ==
  "design-system"

\* the feature whose presence in config.features runs the detector
featureOf(fn) ==
  CASE fn = "detectOverflow" -> "overflow"
    [] fn = "analyzeSpacing" -> "spacing"
    [] fn = "enforceTypescale" -> "typescale"
    [] fn = "checkAccessibility" -> "accessibility"
    [] fn = "analyzeColors" -> "colors"
    [] OTHER -> "design-system"

\* the emissions of Phase 2, in order
codeEmissions(snapshots, cfg) ==
  Flatten([k \in 1..Len(codeDetectors) |->
    IF featureOf(codeDetectors[k]) \in cfg.features
      THEN emissionsOf(codeDetectors[k], snapshots, cfg)
      ELSE <<>>])

\* Phase 5
artifactsOf(allIssues, snapshots) ==
  LET shots == SelectSeq(allIssues, LAMBDA issue : "screenshot" \in DOMAIN issue)
  IN [screenshots |-> [i \in 1..Len(shots) |-> shots[i].id],
      fullViewportCaptures |->
        [name \in {snapshots[s].viewport.name : s \in 1..Len(snapshots)} |->
           LET last == CHOOSE s \in 1..Len(snapshots) :
                         /\ snapshots[s].viewport.name = name
                         /\ \A t \in (s + 1)..Len(snapshots) :
                              snapshots[t].viewport.name # name
           IN snapshots[last].screenshot]]

\* Phases 4 and 5 and the result returned
auditResult(allIssues, snapshots, cfg) ==
  ok([meta |-> [karenVersion |-> "1.0.0", config |-> cfg],
      summary |-> buildSummary(allIssues),
      issues |-> allIssues,
      artifacts |-> artifactsOf(allIssues, snapshots)])

Pending == [state |-> "pending"]

\* a call that is past resetCounter() and awaits captureAllViewports
Awaiting(pc, snapshots, allIssues, index) ==
  [pc |-> pc, snapshots |-> snapshots, allIssues |-> allIssues,
   index |-> index, result |-> Pending, captured |-> Pending,
   aiResults |-> <<>>]

Finished(run, result) == [run EXCEPT !.pc = "done", !.result = result]

\* after Phase 2 or an AI answer: await the analysis of the next snapshot,
\* or finish
continueAudit(run, allIssues, index, cfg) ==
  IF cfg.anthropicApiKey /\ index <= Len(run.snapshots)
    THEN [run EXCEPT !.pc = "ai", !.allIssues = allIssues, !.index = index]
    ELSE Finished([run EXCEPT !.allIssues = allIssues, !.index = index],
                  auditResult(allIssues, run.snapshots, cfg))

\* runAudit is called: resetCounter(), then the await of the capture
RunAuditStart ==
  /\ Len(runs) < MaxRuns
  /\ counter' = 0
  /\ runs' = Append(runs, Awaiting("capture", <<>>, <<>>, 1))
  /\ UNCHANGED <<config, input, calls>>

\* what captureAllViewports resolves to: an error, or the snapshots of the
\* site
CaptureResults == {err("BROWSER_ERROR"), ok(input.snapshots)}

\* KarenError.browserError(message, cause)
browserError(message) == [code |-> "BROWSER_ERROR", message |-> message]

\* the promise of captureAllViewports rejected: closeAll() threw in its
\* catch block or after a failed capture
Rejected == [ok |-> FALSE, rejected |-> TRUE]

\* every way captureAllViewports can end: the error of launch, of
\* captureViewport or of its own catch block, a rejection, or the snapshots
CaptureOutcomes ==
  {[ok |-> FALSE, error |-> browserError("Failed to launch browser")],
   [ok |-> FALSE, error |-> browserError("Failed to capture viewport")],
   [ok |-> FALSE, error |-> browserError("Failed to capture viewports")],
   Rejected,
   ok(input.snapshots)}

\* the catch block of runAudit
caughtError == err("UNKNOWN_ERROR")

\* return err(snapshotsResult.error) rebuilt as an unknown error
captureFailed_unknown(run, captured) == Finished(run, caughtError)

\* if (snapshotsResult.isErr()) return err(snapshotsResult.error)
captureFailed(run, captured) ==
  Finished(run, [ok |-> FALSE, error |-> captured.error])

\* the capture settles: a rejection lands in the catch block, an error is
\* handed back, or Phase 2 runs to its end; an analyzer that throws lands in
\* the catch block
RunAuditAfterCapture(r, captured, seed) ==
  /\ runs[r].pc = "capture"
  /\ IF "rejected" \in DOMAIN captured
       THEN /\ runs' = [runs EXCEPT ![r] =
                         Finished([@ EXCEPT !.captured = captured], caughtError)]
            /\ UNCHANGED counter
       ELSE IF ~captured.ok
       THEN /\ runs' = [runs EXCEPT ![r] =
                         captureFailed([@ EXCEPT !.captured = captured], captured)]
            /\ UNCHANGED counter
       ELSE LET snapshots == captured.value
                o == callOutcome(codeEmissions(snapshots, config), counter, seed)
                run == [runs[r] EXCEPT !.snapshots = snapshots,
                                       !.captured = captured]
            IN /\ counter' = o.counter
               /\ runs' = [runs EXCEPT ![r] =
                    IF o.ret.state = "threw"
                      THEN Finished(run, caughtError)
                      ELSE continueAudit(run, o.ret.value, 1, config)]
  /\ UNCHANGED <<config, input, calls>>

\* mutant: a failed analysis empties the list
pushAiIssues_resetOnFailure(allIssues, aiIssuesResult) ==
  IF aiIssuesResult.ok THEN allIssues \o aiIssuesResult.value ELSE <<>>

\* if (aiIssuesResult.isOk()) allIssues.push(...aiIssuesResult.value)
pushAiIssues(allIssues, aiIssuesResult) ==
  IF aiIssuesResult.ok THEN allIssues \o aiIssuesResult.value ELSE allIssues

\* the analysis of the current snapshot resolves: its issues are pushed when
\* it is ok, and the loop goes on. aiResults keeps, for each snapshot
\* analysed, the result and the list as it was when the analysis resolved.
RunAuditAfterAi(r, response) ==
  /\ runs[r].pc = "ai"
  /\ LET o == analyzeVisualIssues(response, runs[r].snapshots[runs[r].index],
                                  counter)
         run == [runs[r] EXCEPT !.aiResults =
                   Append(@, [index |-> runs[r].index, ok |-> o.result.ok,
                              before |-> runs[r].allIssues])]
         allIssues == pushAiIssues(run.allIssues, o.result)
     IN /\ counter' = o.counter
        /\ runs' = [runs EXCEPT ![r] =
                      continueAudit(run, allIssues, run.index + 1, config)]
  /\ UNCHANGED <<config, input, calls>>

-----------------------------------------------------------------------------
(* Specifications Spec and SpecSeq: runAudit called on one engine, the     *)
(* calls overlapping at their awaits (Spec) or one after the other         *)
(* (SpecSeq)                                                               *)

Tablet == [name |-> "tablet", width |-> 768 * PX, height |-> 1024 * PX]

WithClasses(element, classes) == [element EXCEPT !.classes = classes]

Button(selector, radius, padding) ==
  WithClasses(Element(selector, "BUTTON", Rect(120, 40),
                      [borderRadius |-> Px(radius), padding |-> padding], <<>>),
              << <<"btn">> >>)

\* one element per rule of the responsive detector: a heading with the same
\* large font, padding and pixel width on every viewport
Title ==
  Element(".title", "H1", Rect(900, 80),
          [fontSize |-> Px(32), padding |-> Px(40), width |-> Px(700)], <<>>)

TestSite ==
  <<Snapshot(Mobile,
             <<Element(".test", "DIV", Rect(100, 100),
                       [margin |-> Px(15), padding |-> Px(8)], <<>>)>>, 1)>>

HeroSite ==
  <<Snapshot(Mobile,
             <<Element(".hero", "SECTION", Rect(360, 200),
                       [fontSize |-> Px(15)], <<>>)>>, 0),
    Snapshot(Desktop,
             <<Element(".hero", "SECTION", Rect(1200, 200),
                       [fontSize |-> Px(15)], <<>>)>>, 0)>>

\* the sites audited without the AI analysis: no breakpoint, the element of
\* the spacing test on an overflowing phone page, an element wider than the
\* phone, a section on phone and desktop, the title on three viewports, and
\* six buttons in six styles
AuditSites ==
  { <<>>,
    TestSite,
    <<Snapshot(Mobile,
               <<Element(".wide", "DIV", Rect(500, 100),
                         [width |-> Px(500), overflow |-> Str("hidden")],
                         <<>>)>>, 0)>>,
    HeroSite,
    <<Snapshot(Mobile, <<Title>>, 0), Snapshot(Tablet, <<Title>>, 0),
      Snapshot(Desktop, <<Title>>, 0)>>,
    <<Snapshot(Desktop,
               <<Button(".b1", 2, Px(4)), Button(".b2", 4, Px(8)),
                 Button(".b3", 6, Px(12)), Button(".b4", 8, Px(16)),
                 Button(".b5", 8, Px(20)), Button(".b6", 8, Px(24))>>, 0)>> }

AuditConfigs ==
  { defaultConfig,
    [defaultConfig EXCEPT !.features = {"design-system"}],
    [defaultConfig EXCEPT !.features = {"spacing", "typescale"},
                          !.spacingScale = <<>>],
    [defaultConfig EXCEPT !.features = {}] }

\* the sites and configurations audited with the AI analysis enabled
AiSites == {TestSite, HeroSite}

AiConfigs ==
  { [defaultConfig EXCEPT !.features = {"spacing"}, !.anthropicApiKey = TRUE] }

Init ==
  /\ counter = 0
  /\ \/ config \in AuditConfigs /\ input \in [snapshots : AuditSites]
     \/ config \in AiConfigs /\ input \in [snapshots : AiSites]
  /\ runs = IdleRuns
  /\ calls = <<>>

Next ==
  \/ RunAuditStart
  \/ \E r \in 1..Len(runs), seed \in 0..(RandomVariants - 1) :
       \E captured \in CaptureResults : RunAuditAfterCapture(r, captured, seed)
  \/ \E r \in 1..Len(runs), response \in AiResponses : RunAuditAfterAi(r, response)

Spec == Init /\ [][Next]_vars

\* runAudit is called when no earlier call is still running
RunAuditStartAlone ==
  /\ \A r \in 1..Len(runs) : runs[r].pc = "done"
  /\ RunAuditStart

NextSeq ==
  \/ RunAuditStartAlone
  \/ \E r \in 1..Len(runs), seed \in 0..(RandomVariants - 1) :
       \E captured \in CaptureResults : RunAuditAfterCapture(r, captured, seed)
  \/ \E r \in 1..Len(runs), response \in AiResponses : RunAuditAfterAi(r, response)

SpecSeq == Init /\ [][NextSeq]_vars

-----------------------------------------------------------------------------
(* C1 - C3 *)

\* the issue list of a call that returned ok
Returns(r) == runs[r].pc = "done" /\ runs[r].result.ok
IssuesOf(r) == runs[r].result.value.issues

\* C1: every runAudit call that does not overlap another - the first and
\* every later one - returns issues whose id numbers are 1, 2, ..., n in
\* list order.
C1_SequentialRunsCountFromOne ==
  \A r \in 1..Len(runs) :
    Returns(r) => \A i \in 1..Len(IssuesOf(r)) : IssuesOf(r)[i].id.num = i

\* C2: with runAudit calls overlapping at their awaits, each call still
\* returns pairwise distinct ids whose numbers are gapless from 1.
C2_OverlappingRunsKeepOwnIds ==
  \A r \in 1..Len(runs) :
    Returns(r) =>
      LET ids == [i \in 1..Len(IssuesOf(r)) |-> IssuesOf(r)[i].id]
      IN /\ \A i, j \in 1..Len(ids) : ids[i] = ids[j] => i = j
         /\ {ids[i].num : i \in 1..Len(ids)} = 1..Len(ids)

\* an issue pushed in Phase 2 (the AI issues carry the prefix AI)
CodeDetected(issue) == issue.id.prefix # "AI"

\* C3 as stated: every code-detected issue returned by runAudit has a type
\* listed in config.features.
C3_TypesWithinFeatures ==
  \A r \in 1..Len(runs) :
    Returns(r) =>
      \A i \in 1..Len(IssuesOf(r)) :
        CodeDetected(IssuesOf(r)[i]) => IssuesOf(r)[i].type \in config.features

\* the issue of detectFixedWidths: an element wider than the phone viewport
FixedWidthIssue(issue) ==
  issue.id.prefix = "RWD" /\ issue.type = "overflow" /\ issue.severity = "high"

\* C3 amended: every code-detected issue returned by runAudit has a type
\* listed in config.features, except the responsive detector's fixed-width
\* issues, which have type 'overflow' and are returned only when
\* 'design-system' is listed.
C3_TypesWithinFeaturesButFixedWidth ==
  \A r \in 1..Len(runs) :
    Returns(r) =>
      \A i \in 1..Len(IssuesOf(r)) :
        CodeDetected(IssuesOf(r)[i]) =>
          \/ IssuesOf(r)[i].type \in config.features
          \/ /\ FixedWidthIssue(IssuesOf(r)[i])
             /\ "design-system" \in config.features

\* a run with only 'design-system' enabled returned a fixed-width issue
C3_Witness ==
  \E r \in 1..Len(runs) :
    /\ Returns(r)
    /\ "overflow" \notin config.features
    /\ \E i \in 1..Len(IssuesOf(r)) : FixedWidthIssue(IssuesOf(r)[i])

-----------------------------------------------------------------------------
(* Specification SpecColors: analyzeColors called directly *)

MaxColorElements == 3    \* longest snapshot.dom handed to analyzeColors

\* #AABBCC and #AABBC5 (the near-duplicates of the specification), the same
\* colour written as rgb(), a third colour close to both, pure red in two
\* spellings and a transparent colour
ColorChoices ==
  { <<Hex(170, 187, 204)>>, <<Hex(170, 187, 197)>>, <<Rgb(170, 187, 204)>>,
    <<Hex(170, 187, 200)>>, <<Hex(255, 0, 0)>>, Str("red"),
    <<Rgba(170, 187, 204, 0)>> }

\* the k-th element of a dom that uses the colours `colors`
ColorElement(k, color) ==
  Element(<<".c1", ".c2", ".c3", ".c4", ".c5">>[k], "DIV", Rect(100, 100),
          [color |-> color], <<>>)

ColorSnapshots ==
  { <<Snapshot(Desktop, [k \in 1..Len(colors) |-> ColorElement(k, colors[k])], 0)>> :
      colors \in SeqsUpTo(ColorChoices, MaxColorElements) }

InitColors ==
  /\ counter = 0
  /\ config = defaultConfig
  /\ runs = IdleRuns
  /\ input \in [snapshots : ColorSnapshots]
  /\ calls = <<>>

CallAnalyzeColors ==
  /\ calls = <<>>
  /\ LET o == callOutcome(analyzeColors(input.snapshots, config), counter, 0)
     IN /\ calls' = <<Call("analyzeColors", o.ret)>>
        /\ counter' = o.counter
  /\ UNCHANGED <<config, runs, input>>

NextColors == CallAnalyzeColors

SpecColors == InitColors /\ [][NextColors]_vars

-----------------------------------------------------------------------------
(* C11, C12 *)

\* the near-duplicate issues a call of analyzeColors returned
NearDuplicates(call) ==
  SelectSeq(call.value, LAMBDA issue : "color1" \in DOMAIN issue.details)

\* the distinct normalised colours used by the elements of the input
TableColors ==
  LET dom == input.snapshots[1].dom
  IN {c \in {normalizeColor(dom[e].computedStyle["color"]) : e \in 1..Len(dom)} :
        c # NoColor}

\* C11: analyzeColors returns exactly one near-duplicate issue, of medium
\* severity, for each unordered pair of distinct colours of the usage table
\* whose distance d has 0 < d < 15, and none for any other pair, in whatever
\* order the colours were met.
C11_OneIssuePerNearPair ==
  (calls # <<>> /\ calls[1].fn = "analyzeColors") =>
    /\ calls[1].state = "returned"
    /\ LET near == NearDuplicates(calls[1])
           about(issue) == {issue.details.color1, issue.details.color2}
       IN /\ \A k \in 1..Len(near) :
               /\ near[k].severity = "medium"
               /\ about(near[k]) \subseteq TableColors
               /\ near[k].details.color1 # near[k].details.color2
          /\ \A c1, c2 \in TableColors :
               c1 # c2 =>
                 Cardinality({k \in 1..Len(near) : about(near[k]) = {c1, c2}})
                   = IF /\ colorDistance(c1, c2) > 0
                        /\ colorDistance(c1, c2) < Distance(15)
                       THEN 1 ELSE 0

\* analyzeColors met the rarer colour of a near pair after the more frequent
\* one and reported the pair
C11_Witness ==
  /\ calls # <<>> /\ calls[1].fn = "analyzeColors"
  /\ \E k \in 1..Len(NearDuplicates(calls[1])) :
       NearDuplicates(calls[1])[k].details.occurrences1
         > NearDuplicates(calls[1])[k].details.occurrences2

\* C12: the fix of every near-duplicate issue goes from the less used colour
\* (fix.code.before) to the more used colour (fix.code.after), whichever of
\* the two was met first.
C12_FixNamesMoreUsedColour ==
  (calls # <<>> /\ calls[1].fn = "analyzeColors") =>
    \A k \in 1..Len(NearDuplicates(calls[1])) :
      LET issue == NearDuplicates(calls[1])[k]
          more == IF issue.details.occurrences1 > issue.details.occurrences2
                    THEN issue.details.color1 ELSE issue.details.color2
          less == IF issue.details.occurrences1 > issue.details.occurrences2
                    THEN issue.details.color2 ELSE issue.details.color1
      IN issue.details.occurrences1 # issue.details.occurrences2 =>
           /\ issue.fix.after.value = more
           /\ issue.fix.before.value = less

-----------------------------------------------------------------------------
(* Specification SpecResponsive: enforceResponsiveDesign called directly   *)
(* on snapshots of one page taken at different viewports                   *)

MaxViewports == 3    \* longest snapshot list handed to enforceResponsiveDesign

MobileLarge == [name |-> "mobile-large", width |-> 414 * PX, height |-> 896 * PX]

ResponsiveViewports == {Mobile, MobileLarge, Tablet, Desktop}

\* the dom of the page at one viewport: the title with a large font and a
\* pixel width, with a width half a pixel wider than the small phone, with a
\* 24px font and a relative width, with a font half a pixel above 24px,
\* without any style, or no element at all
ResponsiveDoms ==
  { <<Element(".title", "H1", Rect(400, 80),
              [fontSize |-> Px(32), width |-> Px(400), padding |-> Px(40)], <<>>)>>,
    <<Element(".title", "H1", Rect(375, 80),
              [fontSize |-> Px(32), width |-> <<Num(375 * PX + 1, "px")>>], <<>>)>>,
    <<Element(".title", "H1", Rect(300, 80),
              [fontSize |-> Px(24), width |-> <<Num(50 * PX, "%")>>], <<>>)>>,
    <<Element(".title", "H1", Rect(700, 80),
              [fontSize |-> <<Num(24 * PX + 1, "px")>>, width |-> Px(700)], <<>>)>>,
    <<Element(".title", "H1", Rect(300, 80), NoStyle, <<>>)>>,
    <<>> }

\* snapshot lists over distinct viewports, in every order
ResponsiveSnapshots ==
  { s \in SeqsUpTo({Snapshot(viewport, dom, 0) :
                      viewport \in ResponsiveViewports, dom \in ResponsiveDoms},
                   MaxViewports) :
      \A i, j \in 1..Len(s) : s[i].viewport = s[j].viewport => i = j }

InitResponsive ==
  /\ counter = 0
  /\ config = defaultConfig
  /\ runs = IdleRuns
  /\ input \in [snapshots : {s \in ResponsiveSnapshots : s # <<>>}]
  /\ calls = <<>>

CallEnforceResponsiveDesign ==
  /\ calls = <<>>
  /\ LET o == callOutcome(enforceResponsiveDesign(input.snapshots, config),
                          counter, 0)
     IN /\ calls' = <<Call("enforceResponsiveDesign", o.ret)>>
        /\ counter' = o.counter
  /\ UNCHANGED <<config, runs, input>>

NextResponsive == CallEnforceResponsiveDesign

SpecResponsive == InitResponsive /\ [][NextResponsive]_vars

\* the fixed-width issues among the issues a call returned
FixedWidthIssues(call) == SelectSeq(call.value, FixedWidthIssue)

EssencesOf(issues) == {Essence(issues[i]) : i \in 1..Len(issues)}

MobileRange(snapshot) ==
  snapshot.viewport.width >= 320 * PX /\ snapshot.viewport.width <= 414 * PX

\* the snapshots of the input whose viewport is 320 to 414 pixels wide
InMobileRange == SelectSeq(input.snapshots, MobileRange)

\* the narrowest of them
NarrowestInRange ==
  CHOOSE s \in Range(InMobileRange) :
    \A t \in Range(InMobileRange) : s.viewport.width <= t.viewport.width

\* C13: the fixed-width check examines the snapshot with the smallest
\* viewport width among those 320 to 414 pixels wide, whatever the order of
\* the snapshot list: the fixed-width issues returned are those of that
\* snapshot.
C13_NarrowestViewportExamined ==
  (calls # <<>> /\ calls[1].fn = "enforceResponsiveDesign"
     /\ calls[1].state = "returned" /\ InMobileRange # <<>>)
    => EssencesOf(FixedWidthIssues(calls[1]))
         = EssencesOf(detectFixedWidths(<<NarrowestInRange>>))

\* the snapshot the fixed-width check examines
Examined == InMobileRange[1]

\* the width is a literal 'Wpx'
LiteralPixelWidth(element) ==
  /\ "width" \in DOMAIN element.computedStyle
  /\ Len(element.computedStyle["width"]) = 1
  /\ element.computedStyle["width"][1].kind = "num"
  /\ element.computedStyle["width"][1].unit = "px"

\* W of a literal 'Wpx'
PixelWidth(element) == element.computedStyle["width"][1].v

\* C14: in the snapshot the fixed-width check examines, of viewport width V,
\* every element whose width is a literal 'Wpx' with W > V gets exactly one
\* high-severity issue with details.overflow = W - V, and an element with
\* W <= V or a width that is not in pixels gets none.
C14_OneIssuePerWiderElement ==
  (calls # <<>> /\ calls[1].fn = "enforceResponsiveDesign"
     /\ calls[1].state = "returned")
    => IF InMobileRange = <<>> THEN FixedWidthIssues(calls[1]) = <<>>
       ELSE /\ \A e \in 1..Len(Examined.dom) :
                 LET element == Examined.dom[e]
                     V == Examined.viewport.width
                     issues == SelectSeq(FixedWidthIssues(calls[1]),
                                 LAMBDA issue : issue.element = element.selector)
                 IN IF LiteralPixelWidth(element) /\ PixelWidth(element) > V
                      THEN /\ Len(issues) = 1
                           /\ issues[1].details.overflow = PixelWidth(element) - V
                      ELSE issues = <<>>
            /\ \A i \in 1..Len(FixedWidthIssues(calls[1])) :
                 \E e \in 1..Len(Examined.dom) :
                   FixedWidthIssues(calls[1])[i].element = Examined.dom[e].selector

\* the issues of a call that say a property stays fixed across viewports
InvarianceIssues(call, selector) ==
  SelectSeq(call.value, LAMBDA issue :
    "property" \in DOMAIN issue.details /\ issue.element = selector)

\* the snapshots of the input that hold the selector
HoldingSelector(selector) ==
  SelectSeq(input.snapshots, LAMBDA s :
    \E e \in 1..Len(s.dom) : s.dom[e].selector = selector)

ViewportNamesOf(selector) ==
  {HoldingSelector(selector)[k].viewport.name :
     k \in 1..Len(HoldingSelector(selector))}

\* the font size strings of the selector, <<>> where the element has none
FontSizesOf(selector) ==
  {IF "fontSize" \in DOMAIN el.computedStyle THEN el.computedStyle["fontSize"]
   ELSE <<>> :
     el \in UNION {{s.dom[e] : e \in {e \in 1..Len(s.dom) :
                                         s.dom[e].selector = selector}} :
                     s \in Range(HoldingSelector(selector))}}

SameLargeFont(selector) ==
  /\ Cardinality(FontSizesOf(selector)) = 1
  /\ \A size \in FontSizesOf(selector) :
       /\ Len(size) = 1 /\ size[1].kind = "num" /\ size[1].unit = "px"
       /\ size[1].v > 24 * PX

\* C15: a selector held by snapshots of at least 3 distinct viewport names
\* gets exactly one medium issue with details.property = 'font-size' when its
\* font size is the same in all of them and above 24px, and none otherwise;
\* a selector held by fewer viewports gets no font-size, padding or width
\* invariance issue.
C15_FontSizeAcrossViewports ==
  (calls # <<>> /\ calls[1].fn = "enforceResponsiveDesign"
     /\ calls[1].state = "returned")
    => \A selector \in {".title"} :
         LET issues == InvarianceIssues(calls[1], selector)
             fonts == SelectSeq(issues, LAMBDA issue :
                        issue.details.property = "font-size")
         IN IF Cardinality(ViewportNamesOf(selector)) >= 3
              THEN IF SameLargeFont(selector)
                     THEN Len(fonts) = 1 /\ fonts[1].severity = "medium"
                     ELSE fonts = <<>>
              ELSE issues = <<>>

C15_Witness ==
  /\ calls # <<>> /\ calls[1].fn = "enforceResponsiveDesign"
  /\ calls[1].state = "returned"
  /\ Cardinality(ViewportNamesOf(".title")) >= 3
  /\ \E i \in 1..Len(calls[1].value) :
       /\ "property" \in DOMAIN calls[1].value[i].details
       /\ calls[1].value[i].details.property = "font-size"

-----------------------------------------------------------------------------
(* Specification SpecDesignSystem: detectDesignSystemChaos called directly *)

MaxButtons == 7     \* most buttons on the page
MaxCards == 5       \* most cards on the page
MaxInputs == 4      \* most input fields on the page
MaxHeadings == 3    \* most headings on the page

\* eight buttons in six styles: .b4 repeats the padding of .b3 in its
\* 4-value form, .b6 differs from .b1 in its text colour only, .b8 is an
\* anchor displayed as a button
ButtonChoices ==
  <<Button(".b1", 4, Px(8)),
    Button(".b2", 8, Px(8)),
    Button(".b3", 12, <<Num(8 * PX, "px"), Num(16 * PX, "px")>>),
    Button(".b4", 12, <<Num(8 * PX, "px"), Num(16 * PX, "px"),
                        Num(8 * PX, "px"), Num(16 * PX, "px")>>),
    Button(".b5", 16, Px(12)),
    WithClasses(Element(".b6", "BUTTON", Rect(120, 40),
                        [borderRadius |-> Px(4), padding |-> Px(8),
                         color |-> <<Hex(255, 0, 0)>>], <<>>),
                << <<"btn">> >>),
    Button(".b7", 20, Px(16)),
    Element(".b8", "A", Rect(120, 40),
            [borderRadius |-> Px(4), padding |-> Px(20),
             display |-> Str("inline-block")], <<>>)>>

\* the k-th card, input field and heading, each in a style of its own
CardChoice(k) ==
  WithClasses(Element(".card", "DIV", Rect(300, 200),
                      [padding |-> Px(4 * k),
                       boxShadow |-> <<Num(k * PX, "px"), Word("black")>>], <<>>),
              << <<"card">> >>)

InputChoice(k) ==
  Element(".field", "INPUT", Rect(200, 30 + 4 * k),
          [height |-> Px(30 + 4 * k),
           border |-> <<Num(k * PX, "px"), Word("solid")>>], <<>>)

HeadingChoice(k) ==
  Element(".heading", "H2", Rect(600, 40), [fontSize |-> Px(20 + 4 * k)], <<>>)

\* the members of a list at the picked positions, in list order
Picked(list, picks) ==
  LET positions == SelectSeq([i \in 1..Len(list) |-> i], LAMBDA i : i \in picks)
  IN [k \in 1..Len(positions) |-> list[positions[k]]]

DesignSystemDoms ==
  { Picked(ButtonChoices, picks)
      \o [k \in 1..cards |-> CardChoice(k)]
      \o [k \in 1..inputs |-> InputChoice(k)]
      \o [k \in 1..headings |-> HeadingChoice(k)] :
      picks \in {p \in SUBSET (1..Len(ButtonChoices)) : Cardinality(p) <= MaxButtons},
      cards \in {0, MaxCards - 1, MaxCards}, inputs \in {0, MaxInputs},
      headings \in {0, MaxHeadings} }

\* the page in one snapshot, or its halves in two
DesignSystemSnapshots ==
  UNION { { <<Snapshot(Desktop, dom, 0)>>,
            <<Snapshot(Mobile, SubSeq(dom, 1, Len(dom) \div 2), 0),
              Snapshot(Desktop, SubSeq(dom, Len(dom) \div 2 + 1, Len(dom)), 0)>> } :
          dom \in DesignSystemDoms }

InitDesignSystem ==
  /\ counter = 0
  /\ config = defaultConfig
  /\ runs = IdleRuns
  /\ input \in [snapshots : DesignSystemSnapshots]
  /\ calls = <<>>

CallDetectDesignSystemChaos ==
  /\ calls = <<>>
  /\ LET o == callOutcome(detectDesignSystemChaos(input.snapshots, config),
                          counter, 0)
     IN /\ calls' = <<Call("detectDesignSystemChaos", o.ret)>>
        /\ counter' = o.counter
  /\ UNCHANGED <<config, runs, input>>

NextDesignSystem == CallDetectDesignSystemChaos

SpecDesignSystem == InitDesignSystem /\ [][NextDesignSystem]_vars

\* the buttons of all snapshots of the input
ButtonsOfInput ==
  UNION {{s.dom[e] : e \in {e \in 1..Len(s.dom) : isButton(s.dom[e])}} :
           s \in Range(input.snapshots)}

\* their distinct style signatures
SignaturesOfInput ==
  {createStyleSignature(ButtonStyle(btn)) : btn \in ButtonsOfInput}

ButtonComponentsIssues(call) ==
  SelectSeq(call.value, LAMBDA issue : issue.element = "Button components")

\* C16: the 'Button components' issue is returned, once and with severity
\* high, if and only if there is at least one button and the buttons of all
\* snapshots have more than 5 distinct style signatures; its
\* details.uniqueStyles is the number of distinct signatures.
C16_ButtonSignatureThreshold ==
  (calls # <<>> /\ calls[1].fn = "detectDesignSystemChaos"
     /\ calls[1].state = "returned")
    => LET issues == ButtonComponentsIssues(calls[1])
       IN IF ButtonsOfInput # {} /\ Cardinality(SignaturesOfInput) > 5
            THEN /\ Len(issues) = 1
                 /\ issues[1].severity = "high"
                 /\ issues[1].details.uniqueStyles = Cardinality(SignaturesOfInput)
            ELSE issues = <<>>

C16_Witness ==
  /\ calls # <<>> /\ calls[1].fn = "detectDesignSystemChaos"
  /\ calls[1].state = "returned"
  /\ Len(input.snapshots) = 2
  /\ Cardinality(ButtonsOfInput) > Cardinality(SignaturesOfInput)
  /\ ButtonComponentsIssues(calls[1]) # <<>>

\* C17: an issue of detectDesignSystemChaos has severity high when it
\* reports the button signature explosion and medium in every other case,
\* card padding included.
C17_HighForButtonsMediumOtherwise ==
  (calls # <<>> /\ calls[1].fn = "detectDesignSystemChaos"
     /\ calls[1].state = "returned")
    => \A i \in 1..Len(calls[1].value) :
         calls[1].value[i].severity
           = IF calls[1].value[i].element = "Button components"
               THEN "high" ELSE "medium"

-----------------------------------------------------------------------------
(* Specification SpecGrid: detectMisalignment called directly on a page    *)
(* with a header and a container of equally sized children                 *)

MaxChildren == 5    \* most children of the container

GapChoices == {20 * PX, 30 * PX, 40 * PX, 50 * PX}

\* where the k-th child starts: 100px per child before it plus the gaps
RECURSIVE OffsetOf(_, _)
OffsetOf(gaps, k) ==
  IF k = 1 THEN 0 ELSE OffsetOf(gaps, k - 1) + 100 * PX + gaps[k - 1]

GridItemNames == <<".grid-item-1", ".grid-item-2", ".grid-item-3",
                   ".grid-item-4", ".grid-item-5", ".grid-item-6">>

\* the children side by side ("row") or one below the other ("column")
GridChildren(gaps, direction) ==
  [k \in 1..(Len(gaps) + 1) |->
     [Element(GridItemNames[k], "DIV", Rect(100, 100), NoStyle, <<>>)
        EXCEPT !.rect.x = IF direction = "row" THEN OffsetOf(gaps, k) ELSE 0,
               !.rect.y = 200 * PX
                            + (IF direction = "row" THEN 0 ELSE OffsetOf(gaps, k))]]

Reversed(list) == [k \in 1..Len(list) |-> list[Len(list) + 1 - k]]

\* the container listed before the header above it
GridDom(children) ==
  <<[Element(".grid-container", "DIV", Rect(1000, 700), NoStyle, children)
       EXCEPT !.rect.y = 200 * PX],
    Element(".header", "HEADER", Rect(1000, 100), NoStyle, <<>>)>>

GridSnapshots ==
  { <<Snapshot(Desktop, GridDom(children), 0)>> :
      children \in UNION { {GridChildren(gaps, direction),
                             Reversed(GridChildren(gaps, direction))} :
                           gaps \in {g \in SeqsUpTo(GapChoices, MaxChildren - 1) :
                                       Len(g) >= 2},
                           direction \in {"row", "column"} } }

InitGrid ==
  /\ counter = 0
  /\ config = defaultConfig
  /\ runs = IdleRuns
  /\ input \in [snapshots : GridSnapshots]
  /\ calls = <<>>

CallDetectMisalignment ==
  /\ calls = <<>>
  /\ LET o == callOutcome(detectMisalignment(input.snapshots, config),
                          counter, 0)
     IN /\ calls' = <<Call("detectMisalignment", o.ret)>>
        /\ counter' = o.counter
  /\ input' = [input EXCEPT !.snapshots = afterDetectMisalignment(@)]
  /\ UNCHANGED <<config, runs>>

NextGrid == CallDetectMisalignment

SpecGrid == InitGrid /\ [][NextGrid]_vars

GridIssues(call) ==
  SelectSeq(call.value, LAMBDA issue :
    "alignmentType" \in DOMAIN issue.details
      /\ issue.details.alignmentType = "grid")

\* Math.round of the mean of the gap values of a list of { gap, count }
RoundedMeanGap(entries) ==
  LET sum == Len(Flatten([k \in 1..Len(entries) |->
                   [c \in 1..entries[k].gap |-> k]]))
  IN (2 * sum + Len(entries)) \div (2 * Len(entries))

\* C18: a grid issue suggests as horizontal gap the rounded mean of the
\* horizontal gap values it lists, and as vertical gap the rounded mean of
\* the vertical gap values (gaps 20, 30, 40, 50 suggest 35).
C18_SuggestedGapIsMeanGap ==
  (calls # <<>> /\ calls[1].fn = "detectMisalignment"
     /\ calls[1].state = "returned")
    => \A i \in 1..Len(GridIssues(calls[1])) :
         LET details == GridIssues(calls[1])[i].details
         IN /\ details.horizontalGaps # <<>>
                 => details.suggestedHorizontalGap
                      = RoundedMeanGap(details.horizontalGaps)
            /\ details.verticalGaps # <<>>
                 => details.suggestedVerticalGap
                      = RoundedMeanGap(details.verticalGaps)

-----------------------------------------------------------------------------
(* Specification SpecCapture: runAudit called time after time, the capture *)
(* ending in each of the ways it can                                       *)

NextCapture ==
  \/ RunAuditStartAlone
  \/ \E r \in 1..Len(runs), seed \in 0..(RandomVariants - 1) :
       \E captured \in CaptureOutcomes : RunAuditAfterCapture(r, captured, seed)
  \/ \E r \in 1..Len(runs), response \in AiResponses : RunAuditAfterAi(r, response)

SpecCapture == Init /\ [][NextCapture]_vars

\* Phase 2 throws on the snapshots of the run
DetectorThrows(run) ==
  \E i \in 1..Len(codeEmissions(run.snapshots, config)) :
    IsThrow(codeEmissions(run.snapshots, config)[i])

\* C20: a runAudit call always ends in a result. When the capture resolved
\* to an error the result is err with that very error, no analyzer has run
\* and no issue was collected; when the capture rejected or a detector threw
\* the result is err of code UNKNOWN_ERROR; otherwise it is ok, with every
\* issue of the code detectors in order, every issue collected, and the
\* summary of that list.
C20_RunAuditAlwaysResolves ==
  \A r \in 1..Len(runs) :
    runs[r].pc = "done" =>
      LET run == runs[r]
      IN IF "rejected" \in DOMAIN run.captured
           THEN run.result = [ok |-> FALSE, error |-> [code |-> "UNKNOWN_ERROR"]]
         ELSE IF ~run.captured.ok
           THEN /\ run.result = run.captured
                /\ run.result.error.code = "BROWSER_ERROR"
                /\ run.allIssues = <<>> /\ run.snapshots = <<>>
         ELSE IF DetectorThrows(run)
           THEN run.result = [ok |-> FALSE, error |-> [code |-> "UNKNOWN_ERROR"]]
         ELSE LET raw == codeEmissions(run.snapshots, config)
              IN /\ run.result.ok
                 /\ run.result.value.issues = run.allIssues
                 /\ Len(run.allIssues) >= Len(raw)
                 /\ \A i \in 1..Len(raw) :
                      Essence(run.allIssues[i]) = Essence(raw[i])
                 /\ run.result.value.summary = buildSummary(run.allIssues)
                 /\ run.result.value.summary.total = Len(run.allIssues)

\* one call handed back a capture error, one went past the capture, and one
\* ended in the catch block
C20_Witness ==
  /\ \E r \in 1..Len(runs) :
       runs[r].pc = "done" /\ ~runs[r].captured.ok
         /\ "rejected" \notin DOMAIN runs[r].captured
  /\ \E r \in 1..Len(runs) :
       runs[r].pc = "done" /\ runs[r].captured.ok
         /\ (DetectorThrows(runs[r]) \/ runs[r].result.value.issues # <<>>)
  /\ \E r \in 1..Len(runs) :
       runs[r].pc = "done" /\ ~runs[r].result.ok
         /\ runs[r].result.error.code = "UNKNOWN_ERROR"

-----------------------------------------------------------------------------
(* C21 *)

\* C21: detectOverflow flags only elements that overflow: every issue it
\* returns is about an element wider than the viewport of its snapshot, in a
\* snapshot whose metrics count at least one overflowing element.
C21_OnlyOverflowingElementsFlagged ==
  (calls # <<>> /\ calls[1].fn = "detectOverflow" /\ calls[1].state = "returned")
    => \A i \in 1..Len(calls[1].value) :
         \E s \in 1..Len(input.snapshots) :
           LET snapshot == input.snapshots[s]
           IN /\ snapshot.viewport.name = calls[1].value[i].viewport
              /\ snapshot.metrics.overflowingElements > 0
              /\ \E e \in 1..Len(snapshot.dom) :
                   /\ snapshot.dom[e].selector = calls[1].value[i].element
                   /\ snapshot.dom[e].rect.width > snapshot.viewport.width

-----------------------------------------------------------------------------
(* detectors/performance.ts: calculatePerformanceScore *)

\* a metrics object holds the fields that are not undefined; cls is kept in
\* thousandths, the times in milliseconds
Supplied(metrics, name) == name \in DOMAIN metrics

\* the points taken off for one value: poor, needs improvement, good
penalty(value, poor, needsImprovement, poorPoints, needsPoints) ==
  IF value > poor THEN poorPoints
  ELSE IF value > needsImprovement THEN needsPoints
  ELSE 0

\* metrics.inp || metrics.fid: [] when the outcome is undefined
interactionMetric(metrics) ==
  IF Supplied(metrics, "inp") /\ metrics["inp"] # 0 THEN <<metrics["inp"]>>
  ELSE IF Supplied(metrics, "fid") THEN <<metrics["fid"]>>
  ELSE <<>>

\* the { weight, points off } of every metric that is scored
scoredMetrics(metrics) ==
  (IF Supplied(metrics, "lcp")
     THEN <<[weight |-> 25, off |-> penalty(metrics["lcp"], 4000, 2500, 25, 15)]>>
     ELSE <<>>)
  \o (IF Supplied(metrics, "cls")
        THEN <<[weight |-> 25, off |-> penalty(metrics["cls"], 250, 100, 25, 15)]>>
        ELSE <<>>)
  \o (IF interactionMetric(metrics) # <<>>
        THEN <<[weight |-> 25,
                off |-> penalty(interactionMetric(metrics)[1], 500, 200, 25, 15)]>>
        ELSE <<>>)
  \o (IF Supplied(metrics, "ttfb")
        THEN <<[weight |-> 15, off |-> penalty(metrics["ttfb"], 1800, 600, 15, 8)]>>
        ELSE <<>>)
  \o (IF Supplied(metrics, "fcp")
        THEN <<[weight |-> 10, off |-> penalty(metrics["fcp"], 3000, 1800, 10, 5)]>>
        ELSE <<>>)

RECURSIVE SumOf(_, _)
SumOf(list, field) ==
  IF list = <<>> THEN 0 ELSE Head(list)[field] + SumOf(Tail(list), field)

\* score starts at 100; below 100 points of weight it becomes
\* Math.round((score / weights) * 100), which is Infinity for no weight at
\* all; Math.max(0, Math.min(100, score))
calculatePerformanceScore(metrics) ==
  LET weights == SumOf(scoredMetrics(metrics), "weight")
      score == 100 - SumOf(scoredMetrics(metrics), "off")
      normalized == IF weights >= 100 THEN score
                    ELSE IF weights = 0 THEN 100
                    ELSE (200 * score + weights) \div (2 * weights)
  IN Max(0, Min(100, normalized))

-----------------------------------------------------------------------------
(* Specification SpecPerformance: calculatePerformanceScore called on      *)
(* complete and partial metrics                                            *)

MetricNames == {"lcp", "cls", "inp", "fid", "ttfb", "fcp"}

\* a good, a middling and a poor value of each metric, and an INP of 0
MetricValues ==
  [lcp : {2000, 3000, 5000}, cls : {50, 200, 300}, inp : {0, 150, 300, 600},
   fid : {150, 600}, ttfb : {400, 1000, 2000}, fcp : {1500, 2000, 4000}]

PerformanceMetrics ==
  { [name \in supplied |-> all[name]] :
      all \in MetricValues, supplied \in SUBSET MetricNames }

InitPerformance ==
  /\ counter = 0
  /\ config = defaultConfig
  /\ runs = IdleRuns
  /\ input \in [metrics : PerformanceMetrics]
  /\ calls = <<>>

CallCalculatePerformanceScore ==
  /\ calls = <<>>
  /\ calls' = <<Call("calculatePerformanceScore",
                     Returned(calculatePerformanceScore(input.metrics)))>>
  /\ UNCHANGED <<counter, config, runs, input>>

NextPerformance == CallCalculatePerformanceScore

SpecPerformance == InitPerformance /\ [][NextPerformance]_vars

\* where the poor range of a metric begins, and a good value of it
PoorAbove == [lcp |-> 4000, cls |-> 250, inp |-> 500, fid |-> 500, ttfb |-> 1800]
GoodValue == [lcp |-> 2000, cls |-> 50, inp |-> 150, fid |-> 150, ttfb |-> 400]

\* the supplied metrics that are in their poor range; FID stands in for the
\* interaction metric where no INP is supplied
PoorMetrics(metrics) ==
  {name \in DOMAIN metrics \cap DOMAIN PoorAbove :
     /\ metrics[name] > PoorAbove[name]
     /\ name = "fid" => "inp" \notin DOMAIN metrics}

\* C22: the score is in 0..100, and with a supplied metric in its poor
\* range it is below 100 and below the score of the same metrics with that
\* metric in its good range, for complete and for partial metrics.
C22_ScoreInRangeAndPoorPenalised ==
  (calls # <<>> /\ calls[1].fn = "calculatePerformanceScore")
    => /\ calls[1].value \in 0..100
       /\ \A name \in PoorMetrics(input.metrics) :
            /\ calls[1].value < 100
            /\ calls[1].value
                 < calculatePerformanceScore(
                     [input.metrics EXCEPT ![name] = GoodValue[name]])

-----------------------------------------------------------------------------
(* Specification SpecAlign: detectMisalignment called directly on elements *)
(* placed within and beyond the tolerance of one another                   *)

MaxAligned == 3     \* most elements of the dom

\* places on a grid of half the default tolerance, one of them half a
\* sub-pixel unit off, and an invisible element
AlignRects ==
  {[x |-> x, y |-> y, width |-> 50 * PX, height |-> 20 * PX] :
     x \in {0, 4 * PX + 1}, y \in {0, 2 * PX, 4 * PX, 4 * PX + 1, 8 * PX}}
  \cup {[x |-> 0, y |-> 0, width |-> 0, height |-> 20 * PX]}

AlignNames == <<".item-1", ".item-2", ".item-3", ".item-4">>

AlignDoms ==
  { [k \in 1..Len(rects) |->
       [Element(AlignNames[k], "DIV", Rect(50, 20), NoStyle, <<>>)
          EXCEPT !.rect = rects[k]]] :
      rects \in SeqsUpTo(AlignRects, MaxAligned) }

AlignConfigs ==
  {[defaultConfig EXCEPT !.alignTolerancePx = tolerance] :
     tolerance \in {0, 2 * PX, 4 * PX}}

InitAlign ==
  /\ counter = 0
  /\ config \in AlignConfigs
  /\ runs = IdleRuns
  /\ input \in [snapshots : {<<Snapshot(Desktop, dom, 0)>> : dom \in AlignDoms}]
  /\ calls = <<>>

SpecAlign == InitAlign /\ [][NextGrid]_vars

\* the rows and columns the analyzer forms from the dom of the input
ClustersOfInput ==
  LET dom == input.snapshots[1].dom
      rows == groupElementsByRow(dom, config.alignTolerancePx)
      columns == groupElementsByColumn(dom, config.alignTolerancePx)
  IN {[i \in 1..Len(rows[r]) |-> rows[r][i].rect.y] : r \in 1..Len(rows)}
       \cup {[i \in 1..Len(columns[c]) |-> columns[c][i].rect.x] :
               c \in 1..Len(columns)}

\* C23: the coordinates of every row and column cluster are ascending and
\* within the tolerance of the first, so its spread never exceeds the
\* tolerance, and detectMisalignment returns no issue of alignmentType
\* 'horizontal' or 'vertical'.
C23_NoRowOrColumnIssue ==
  (calls # <<>> /\ calls[1].fn = "detectMisalignment"
     /\ calls[1].state = "returned")
    => /\ \A positions \in ClustersOfInput :
            /\ \A i \in 1..(Len(positions) - 1) : positions[i] <= positions[i + 1]
            /\ positions[Len(positions)] - positions[1] <= config.alignTolerancePx
       /\ \A i \in 1..Len(calls[1].value) :
            calls[1].value[i].details.alignmentType \notin {"horizontal", "vertical"}

\* a call went over a cluster whose last member is offset from the first by
\* the whole tolerance
C23_Witness ==
  /\ calls # <<>> /\ calls[1].fn = "detectMisalignment"
  /\ calls[1].state = "returned"
  /\ config.alignTolerancePx > 0
  /\ \E positions \in ClustersOfInput :
       positions[Len(positions)] - positions[1] = config.alignTolerancePx

-----------------------------------------------------------------------------
(* C24 *)

SpacingIssues(call) ==
  SelectSeq(call.value, LAMBDA issue : "nearestScaleValue" \in DOMAIN issue.details)

\* the first position of the scale at the least distance from the value
FirstNearest(value, scale) ==
  CHOOSE k \in 1..Len(scale) :
    /\ \A j \in 1..Len(scale) : Abs(scale[k] - value) <= Abs(scale[j] - value)
    /\ \A j \in 1..(k - 1) : Abs(scale[k] - value) < Abs(scale[j] - value)

\* C24: for every flagged spacing value v and non-empty scale,
\* details.nearestScaleValue is a scale entry at the least distance from v
\* over the whole scale, sorted or not, the first such entry in scale order;
\* details.difference is |v - nearestScaleValue| and the fix proposes that
\* entry.
C24_NearestScaleValue ==
  (calls # <<>> /\ calls[1].fn = "analyzeSpacing" /\ calls[1].state = "returned"
     /\ config.spacingScale # <<>>)
    => \A i \in 1..Len(SpacingIssues(calls[1])) :
         LET issue == SpacingIssues(calls[1])[i]
             v == issue.details.value
             nearest == config.spacingScale[FirstNearest(v, config.spacingScale)]
         IN /\ issue.details.nearestScaleValue = nearest
            /\ issue.details.difference = Abs(v - nearest)
            /\ issue.fix.after.value = nearest
            /\ issue.fix.after.property = issue.details.property

\* a value was flagged that lies midway between two entries of an unsorted
\* scale
C24_Witness ==
  /\ calls # <<>> /\ calls[1].fn = "analyzeSpacing" /\ calls[1].state = "returned"
  /\ \E i \in 1..Len(SpacingIssues(calls[1])) :
       LET v == SpacingIssues(calls[1])[i].details.value
       IN \E j, k \in 1..Len(config.spacingScale) :
            /\ j < k /\ config.spacingScale[j] > config.spacingScale[k]
            /\ config.spacingScale[j] - v = v - config.spacingScale[k]
            /\ SpacingIssues(calls[1])[i].details.nearestScaleValue
                 = config.spacingScale[j]

-----------------------------------------------------------------------------
(* C25 *)

\* the groups of the audit result in their order, each with the feature
\* that enables it
IssueGroups ==
  <<[fn |-> "detectOverflow", feature |-> "overflow"],
    [fn |-> "analyzeSpacing", feature |-> "spacing"],
    [fn |-> "enforceTypescale", feature |-> "typescale"],
    [fn |-> "checkAccessibility", feature |-> "accessibility"],
    [fn |-> "analyzeColors", feature |-> "colors"],
    [fn |-> "detectDesignSystemChaos", feature |-> "design-system"],
    [fn |-> "detectMisalignment", feature |-> "design-system"],
    [fn |-> "enforceDesignTokens", feature |-> "design-system"],
    [fn |-> "enforceResponsiveDesign", feature |-> "design-system"]>>

\* what the enabled analyzers emit on the snapshots, group after group
GroupedEmissions(snapshots) ==
  Flatten([g \in 1..Len(IssueGroups) |->
    IF IssueGroups[g].feature \in config.features
      THEN EssenceOf(emissionsOf(IssueGroups[g].fn, snapshots, config))
      ELSE <<>>])

\* the position of the first snapshot of a viewport name
SnapshotIndex(snapshots, name) ==
  CHOOSE s \in 1..Len(snapshots) :
    /\ snapshots[s].viewport.name = name
    /\ \A t \in 1..(s - 1) : snapshots[t].viewport.name # name

\* C25: the issues of an audit result are the issues of the enabled
\* analyzers, group after group in the order overflow, spacing, typescale,
\* accessibility, colors, design-system chaos, misalignment, design tokens,
\* responsive, each group in the order its analyzer emits, followed by the
\* AI issues in the order of the snapshots.
C25_IssuesGroupedInFixedOrder ==
  \A r \in 1..Len(runs) :
    Returns(r) =>
      LET issues == IssuesOf(r)
          grouped == GroupedEmissions(runs[r].snapshots)
      IN /\ Len(issues) >= Len(grouped)
         /\ \A i \in 1..Len(grouped) :
              issues[i].id.prefix # "AI" /\ Essence(issues[i]) = grouped[i]
         /\ \A i \in (Len(grouped) + 1)..Len(issues) : issues[i].id.prefix = "AI"
         /\ \A i, j \in (Len(grouped) + 1)..Len(issues) :
              i < j => SnapshotIndex(runs[r].snapshots, issues[i].viewport)
                         <= SnapshotIndex(runs[r].snapshots, issues[j].viewport)

\* a result holds issues of two groups
C25_Witness ==
  \E r \in 1..Len(runs) :
    /\ Returns(r)
    /\ \E i, j \in 1..Len(IssuesOf(r)) :
         i < j /\ IssuesOf(r)[i].id.prefix # IssuesOf(r)[j].id.prefix

-----------------------------------------------------------------------------
(* C26 *)

\* C26: details.wcagLevel of an accessibility issue names the threshold
\* that was applied: 'AAA' when the font size of the element is below 18px
\* and 'AA' when it is 18px or more, for every pair of contrastRatios.
C26_WcagLevelNamesAppliedThreshold ==
  (calls # <<>> /\ calls[1].fn = "checkAccessibility"
     /\ calls[1].state = "returned")
    => \A i \in 1..Len(calls[1].value) :
         \A s \in 1..Len(input.snapshots) :
           \A e \in 1..Len(input.snapshots[s].dom) :
             LET issue == calls[1].value[i]
                 element == input.snapshots[s].dom[e]
             IN (input.snapshots[s].viewport.name = issue.viewport
                   /\ element.selector = issue.element)
                  => issue.details.wcagLevel
                       = IF parseFloatStr(element.computedStyle["fontSize"]) < 18 * PX
                           THEN "AAA" ELSE "AA"

-----------------------------------------------------------------------------
(* Specification SpecAi: one runAudit call with the AI analysis enabled,   *)
(* the answers holding entries of any type and severity                    *)

\* entries as the prompt asks for them, an entry whose type is none of the
\* six listed and an entry whose severity is none of the four listed
TypedAiItems ==
  { [description |-> "description"],
    [description |-> "description", type |-> "spacing", severity |-> "critical"],
    [description |-> "description", type |-> "alignment", severity |-> "high"],
    [description |-> "description", type |-> "spacing", severity |-> "warning"] }

TypedAiResponses ==
  { [kind |-> "failed"], [kind |-> "noIssuesArray"] }
  \cup {[kind |-> "issues", issues |-> items] :
          items \in SeqsUpTo(TypedAiItems, MaxAiIssues)}

\* the AI analysis next to the spacing analyzer, or alone
TypedAiConfigs ==
  AiConfigs
  \cup { [defaultConfig EXCEPT !.features = {}, !.anthropicApiKey = TRUE] }

\* the element of the spacing test on phone and desktop
TestSiteOnTwoViewports ==
  <<TestSite[1], [TestSite[1] EXCEPT !.viewport = Desktop]>>

TypedAiSites == AiSites \cup {TestSiteOnTwoViewports}

InitAi ==
  /\ counter = 0
  /\ config \in TypedAiConfigs
  /\ input \in [snapshots : TypedAiSites]
  /\ runs = IdleRuns
  /\ calls = <<>>

\* runAudit is called on an engine that ran no audit yet
RunAuditFirst ==
  /\ runs = <<>>
  /\ RunAuditStart

NextAi ==
  \/ RunAuditFirst
  \/ \E r \in 1..Len(runs), seed \in 0..(RandomVariants - 1) :
       \E captured \in CaptureResults : RunAuditAfterCapture(r, captured, seed)
  \/ \E r \in 1..Len(runs), response \in TypedAiResponses :
       RunAuditAfterAi(r, response)

SpecAi == InitAi /\ [][NextAi]_vars

RECURSIVE SumOver(_, _)
SumOver(counts, keys) ==
  IF keys = {} THEN 0
  ELSE LET k == CHOOSE k \in keys : TRUE
       IN counts[k] + SumOver(counts, keys \ {k})

\* C27: in every audit result, with or without AI issues, summary.total is
\* the sum of the four severity counts, the sum of the byType counts and the
\* sum of the byViewport counts, and every count is a non-negative integer.
C27_SummaryTotalsAgree ==
  \A r \in 1..Len(runs) :
    Returns(r) =>
      LET summary == runs[r].result.value.summary
      IN /\ summary.total = Len(IssuesOf(r))
         /\ summary.total
              = summary.critical + summary.high + summary.medium + summary.low
         /\ \A t \in DOMAIN summary.byType : summary.byType[t] \in Nat
         /\ \A v \in DOMAIN summary.byViewport : summary.byViewport[v] \in Nat
         /\ summary.total = SumOver(summary.byType, DOMAIN summary.byType)
         /\ summary.total = SumOver(summary.byViewport, DOMAIN summary.byViewport)

\* the same for the results that hold no AI issue
C27_CodeOnlySummaryTotalsAgree ==
  \A r \in 1..Len(runs) :
    (Returns(r) /\ \A i \in 1..Len(IssuesOf(r)) : IssuesOf(r)[i].id.prefix # "AI")
      => LET summary == runs[r].result.value.summary
         IN /\ summary.total
                 = summary.critical + summary.high + summary.medium + summary.low
            /\ \A t \in DOMAIN summary.byType : summary.byType[t] \in Nat
            /\ summary.total = SumOver(summary.byType, DOMAIN summary.byType)
            /\ summary.total = SumOver(summary.byViewport, DOMAIN summary.byViewport)


IsPrefix(s, t) == Len(s) <= Len(t) /\ SubSeq(t, 1, Len(s)) = s

\* the snapshots analysed so far are the first ones, in order
AnalysedInOrder(run) ==
  \A k \in 1..Len(run.aiResults) : run.aiResults[k].index = k

\* C28: when the AI analysis of a snapshot fails, the snapshots after it are
\* still analysed in order, the issues collected before the failure are
\* still there, unchanged, when the next analysis resolves and in the
\* result, and runAudit resolves to ok.
C28_AiFailureIsolated ==
  \A r \in 1..Len(runs) :
    LET run == runs[r]
    IN /\ AnalysedInOrder(run)
       /\ \A k \in 1..Len(run.aiResults) :
            ~run.aiResults[k].ok =>
              /\ IsPrefix(run.aiResults[k].before, run.allIssues)
              /\ k < Len(run.aiResults) =>
                   run.aiResults[k + 1].before = run.aiResults[k].before
              /\ k < Len(run.snapshots) /\ Len(run.aiResults) = k =>
                   run.pc = "ai" /\ run.index = k + 1
              /\ run.pc = "done" =>
                   /\ run.result.ok
                   /\ Len(run.aiResults) = Len(run.snapshots)
                   /\ IsPrefix(run.aiResults[k].before, run.result.value.issues)

\* the analysis of the first of two snapshots failed after the code
\* analyzers had found an issue, the second gave an issue, and the audit
\* returned both
C28_Witness ==
  \E r \in 1..Len(runs) :
    /\ Returns(r)
    /\ Len(runs[r].aiResults) = 2
    /\ ~runs[r].aiResults[1].ok
    /\ runs[r].aiResults[1].before # <<>>
    /\ runs[r].aiResults[2].ok
    /\ Len(IssuesOf(r)) > Len(runs[r].aiResults[1].before)

-----------------------------------------------------------------------------
(* Specification SpecCli: the action of the `audit` command, from the      *)
(* result of runAudit to the exit code of the process                      *)

MaxSeverityCount == 1   \* highest count of one severity in a summary

\* the summaries of the audit results, by their severity counts
CliSummaries ==
  { [s EXCEPT !.total = s.critical + s.high + s.medium + s.low] :
      s \in [total : {0}, critical : 0..MaxSeverityCount,
             high : 0..MaxSeverityCount, medium : 0..MaxSeverityCount,
             low : 0..MaxSeverityCount] }

\* what the command meets: the result of runAudit, whether mkdir and
\* writeFile succeed or throw, and how --create-pr went where it was asked
CliInputs ==
  [result : {err("BROWSER_ERROR")} \cup {ok([summary |-> s]) : s \in CliSummaries},
   fileSystem : {"ok", "throws"},
   pr : {"none", "created", "failed"}]

\* the two tests at the end of the action; past them the action returns and
\* the process ends with code 0
failOnExitCode(cfg, summary) ==
  IF "critical" \in cfg.failOn /\ summary.critical > 0 THEN 2
  ELSE IF "high" \in cfg.failOn /\ summary.high > 0 THEN 3
  ELSE 0

\* the exit code of the audit command
auditExitCode(cfg, in) ==
  IF ~in.result.ok THEN 1
  ELSE IF in.fileSystem = "throws" THEN 10
  ELSE failOnExitCode(cfg, in.result.value.summary)

InitCli ==
  /\ counter = 0
  /\ config \in {[defaultConfig EXCEPT !.failOn = failOn] :
                   failOn \in SUBSET IssueSeverity}
  /\ runs = IdleRuns
  /\ input \in CliInputs
  /\ calls = <<>>

CallAuditCommand ==
  /\ calls = <<>>
  /\ calls' = <<Call("audit", Returned(auditExitCode(config, input)))>>
  /\ UNCHANGED <<counter, config, runs, input>>

NextCli == CallAuditCommand

SpecCli == InitCli /\ [][NextCli]_vars

\* the audit succeeded and its reports were written
AuditReported ==
  calls # <<>> /\ calls[1].fn = "audit" /\ input.result.ok
    /\ input.fileSystem = "ok"

\* the severities listed in failOn that have an issue
FailingSeverities ==
  {s \in config.failOn : input.result.value.summary[s] > 0}

\* C29: after a successful audit the exit code is non-zero when a severity
\* listed in failOn has an issue, 2 when that severity is critical, 3 when
\* it is high and not critical, and 0 only when no listed severity has an
\* issue.
C29_FailOnPolicy ==
  AuditReported =>
    /\ FailingSeverities # {} => calls[1].value # 0
    /\ "critical" \in FailingSeverities => calls[1].value = 2
    /\ ("high" \in FailingSeverities /\ "critical" \notin FailingSeverities)
         => calls[1].value = 3
    /\ calls[1].value = 0 => FailingSeverities = {}

\* the same for the severities critical and high alone
C29_CriticalAndHighPolicy ==
  AuditReported =>
    LET failing == FailingSeverities \cap {"critical", "high"}
    IN /\ "critical" \in failing => calls[1].value = 2
       /\ (failing = {"high"}) => calls[1].value = 3
       /\ failing = {} => calls[1].value = 0

-----------------------------------------------------------------------------
(* Specification SpecFixPr: one call of createFixPR, step by step through  *)
(* its awaits, each of which may throw                                     *)

MaxFixable == 2     \* most issues of the audit result that carry a fix

\* the options and the audit result handed to createFixPR
FixPrInputs ==
  [repoUrl : {"none", "invalid", "github"},
   baseBranch : {"none", "develop"},
   fixable : 0..MaxFixable]

\* where the call stands, what became of the temporary directory and what
\* the call returned
FixPrRun(pc, tempDir, result) ==
  [pc |-> pc, tempDir |-> tempDir, filesChanged |-> 0, result |-> result]

\* the awaits between mkdtemp and the checkout, and after applyFixes, in
\* order
PlainAwaits == <<"clone", "checkout", "checkoutLocalBranch", "applyFixes",
                 "commit", "push", "writeFile", "ghPrCreate", "cleanup">>

AwaitAfter(pc) ==
  PlainAwaits[(CHOOSE k \in 1..Len(PlainAwaits) : PlainAwaits[k] = pc) + 1]

\* cleanup(tempDir): fs.rm removes the directory, or throws and is warned
\* about
cleanup(tempDir, rmOk) == IF rmOk THEN "removed" ELSE "left by rm"

\* the catch block of createFixPR
caughtInCreateFixPR(run, rmOk) ==
  [run EXCEPT !.pc = "done",
              !.tempDir = IF @ = "none" THEN @ ELSE cleanup(@, rmOk),
              !.result = err("Failed to create PR")]

InitFixPr ==
  /\ counter = 0
  /\ config = defaultConfig
  /\ runs = IdleRuns
  /\ input \in FixPrInputs
  /\ calls = <<>>

\* createFixPR up to the await of mkdtemp: the checks of gh, the repository
\* found or given, and its URL parsed
CreateFixPRStart(auth, detected) ==
  /\ runs = <<>>
  /\ LET repoUrl == IF input.repoUrl = "none" THEN detected ELSE input.repoUrl
         returned(code) == FixPrRun("done", "none", err(code))
     IN runs' = <<IF auth # "ok" THEN returned(auth)
                  ELSE IF repoUrl = "none" THEN returned("Could not auto-detect")
                  ELSE IF repoUrl = "invalid" THEN returned("Invalid GitHub repository URL")
                  ELSE FixPrRun("mkdtemp", "none", Pending)>>
  /\ UNCHANGED <<counter, config, input, calls>>

\* tempDir = await fs.mkdtemp(...)
CreateFixPRMkdtemp(thrown, rmOk) ==
  /\ Len(runs) = 1 /\ runs[1].pc = "mkdtemp"
  /\ runs' = <<IF thrown THEN caughtInCreateFixPR(runs[1], rmOk)
               ELSE [runs[1] EXCEPT !.pc = "clone", !.tempDir = "exists"]>>
  /\ UNCHANGED <<counter, config, input, calls>>

\* an await that goes on to the next statement or throws into the catch
\* block: clone, checkoutLocalBranch, add and commit, push, writeFile
CreateFixPRAwait(thrown, rmOk) ==
  /\ Len(runs) = 1
  /\ runs[1].pc \in {"clone", "checkoutLocalBranch", "commit", "push", "writeFile"}
  /\ runs' = <<IF thrown THEN caughtInCreateFixPR(runs[1], rmOk)
               ELSE [runs[1] EXCEPT !.pc = AwaitAfter(@)]>>
  /\ UNCHANGED <<counter, config, input, calls>>

\* checkout(baseBranch), then checkout('master') when it throws, then the
\* return from the inner catch when that throws too
CreateFixPRCheckout(baseFound, masterFound) ==
  /\ Len(runs) = 1 /\ runs[1].pc = "checkout"
  /\ runs' = <<IF baseFound \/ masterFound
                 THEN [runs[1] EXCEPT !.pc = "checkoutLocalBranch"]
                 ELSE [runs[1] EXCEPT !.pc = "done",
                         !.result = err("Could not find default branch")]>>
  /\ UNCHANGED <<counter, config, input, calls>>

\* filesChanged = await applyFixes(tempDir, auditResult.issues), and the
\* return when no file changed
CreateFixPRApplyFixes(thrown, filesChanged, rmOk) ==
  /\ Len(runs) = 1 /\ runs[1].pc = "applyFixes"
  /\ filesChanged <= input.fixable
  /\ runs' = <<IF thrown THEN caughtInCreateFixPR(runs[1], rmOk)
               ELSE IF filesChanged = 0
                 THEN [runs[1] EXCEPT !.pc = "done",
                         !.tempDir = cleanup(@, rmOk),
                         !.result = err("No fixable issues found")]
               ELSE [runs[1] EXCEPT !.pc = "commit",
                                    !.filesChanged = filesChanged]>>
  /\ UNCHANGED <<counter, config, input, calls>>

\* gh pr create, the cleanup after it and the ok result
CreateFixPRGhPrCreate(thrown, rmOk) ==
  /\ Len(runs) = 1 /\ runs[1].pc = "ghPrCreate"
  /\ runs' = <<IF thrown THEN caughtInCreateFixPR(runs[1], rmOk)
               ELSE [runs[1] EXCEPT !.pc = "done",
                       !.tempDir = cleanup(@, rmOk),
                       !.result = ok([filesChanged |-> runs[1].filesChanged,
                                      issuesFixed |-> input.fixable])]>>
  /\ UNCHANGED <<counter, config, input, calls>>

NextFixPr ==
  \/ \E auth \in {"ok", "gh is not installed", "Not authenticated"},
        detected \in {"none", "invalid", "github"} :
       CreateFixPRStart(auth, detected)
  \/ \E thrown, rmOk \in BOOLEAN : CreateFixPRMkdtemp(thrown, rmOk)
  \/ \E thrown, rmOk \in BOOLEAN : CreateFixPRAwait(thrown, rmOk)
  \/ \E baseFound, masterFound \in BOOLEAN :
       CreateFixPRCheckout(baseFound, masterFound)
  \/ \E thrown, rmOk \in BOOLEAN, filesChanged \in 0..MaxFixable :
       CreateFixPRApplyFixes(thrown, filesChanged, rmOk)
  \/ \E thrown, rmOk \in BOOLEAN : CreateFixPRGhPrCreate(thrown, rmOk)

SpecFixPr == InitFixPr /\ [][NextFixPr]_vars

\* C30: when createFixPR has returned and had created the temporary
\* directory, the directory has been removed.
C30_TempDirRemovedOnReturn ==
  (Len(runs) = 1 /\ runs[1].pc = "done") => runs[1].tempDir \in {"none", "removed"}

\* on every return but the one of the missing base branch, cleanup was
\* called on the directory
C30_TempDirCleanupCalledElsewhere ==
  (Len(runs) = 1 /\ runs[1].pc = "done" /\ runs[1].tempDir = "exists")
    => runs[1].result = err("Could not find default branch")

====
